---- MODULE Spec2Model ----
(***************************************************************************)
(* Version-and-release ledger of the foundation repository:                *)
(*   shared/version.ts   formatVersion, incrementVersion,                  *)
(*                       calculateImpactScore  (src/unnamed/part_000)      *)
(*   VersionManager      migrateVersionFormat, getCurrentVersion,          *)
(*                       updateVersion, createNewRelease,                  *)
(*                       addChangelogEntry, addRelease                     *)
(*                       (src/server/utils/settings-validator.ts)          *)
(*                                                                         *)
(* Strings of the program are sequences of one-character strings, so that  *)
(* split('.'), padStart, toLowerCase and includes are computed, not        *)
(* assumed.  A JavaScript object is a record; an absent (undefined) field  *)
(* is a field that is not in the record's DOMAIN.  A JavaScript object     *)
(* used as a map (changelog, releases) is a sequence of [k, v] entries in  *)
(* insertion order, the order Object.keys / Object.entries enumerate.      *)
(* A date is the number getTime() returns for it.                          *)
(***************************************************************************)
EXTENDS Integers, Sequences, FiniteSets, TLC

VARIABLES file, now, steps, last, issued, inflight, retry

vars == <<file, now, steps, last, issued, inflight, retry>>

\* retry: the retryOperation call in progress, NoRetry when there is none
\* inflight: the calls that have loaded the document and not yet written,
\* by process; empty while calls run one at a time
\* last: the latest call on record (its name, inputs, the document it
\* loaded and the one it returned); NoCall before the first call
NoCall == [op |-> "none"]

NoRetry == [pc |-> "none"]

(***************************************************************************)
(* Bounds of the model.                                                    *)
(***************************************************************************)
\* largest component of a version the pure specifications draw
MaxComponent == 2
\* number of calls in a run of the ledger specifications
MaxOps == 2
\* number of consecutive updateVersion calls in SpecChain
MaxChain == 4

(***************************************************************************)
(* Strings.                                                                *)
(***************************************************************************)
Range(s) == {s[i] : i \in 1..Len(s)}

DigitChar == <<"0", "1", "2", "3", "4", "5", "6", "7", "8", "9">>

\* Number.prototype.toString() of a non-negative integer
RECURSIVE NumToString(_)
NumToString(n) ==
  IF n < 10 THEN <<DigitChar[n + 1]>>
  ELSE NumToString(n \div 10) \o <<DigitChar[(n % 10) + 1]>>

\* a slip: the text is cut to the width when it is longer (its last width
\* characters are kept)
padStartExact(s, width) ==
  IF Len(s) >= width THEN SubSeq(s, Len(s) - width + 1, Len(s))
  ELSE [i \in 1..width |-> IF i <= width - Len(s) THEN "0" ELSE s[i - (width - Len(s))]]

\* String.prototype.padStart(width, '0')
RECURSIVE padStart(_, _)
padStart(s, width) ==
  IF Len(s) >= width THEN s ELSE padStart(<<"0">> \o s, width)

\* String.prototype.split('.'): the segments between the dots
RECURSIVE SplitFrom(_, _, _)
SplitFrom(s, i, seg) ==
  IF i > Len(s) THEN <<seg>>
  ELSE IF s[i] = "." THEN <<seg>> \o SplitFrom(s, i + 1, <<>>)
  ELSE SplitFrom(s, i + 1, Append(seg, s[i]))

split(s) == SplitFrom(s, 1, <<>>)

\* Array.prototype.join(sep)
RECURSIVE join(_, _)
join(list, sep) ==
  IF Len(list) = 0 THEN <<>>
  ELSE IF Len(list) = 1 THEN list[1]
  ELSE list[1] \o sep \o join(Tail(list), sep)

DotZeros == <<".", "0", "0", "0">>

(***************************************************************************)
(* Objects: optional fields and insertion-ordered maps.                    *)
(***************************************************************************)
Has(obj, f) == f \in DOMAIN obj

\* obj.f = v
SetField(obj, f, v) == (f :> v) @@ obj

MapKeys(m) == {m[i].k : i \in 1..Len(m)}

MapHas(m, key) == key \in MapKeys(m)

MapGet(m, key) == m[CHOOSE i \in 1..Len(m) : m[i].k = key].v

\* m[key] = val: an existing key keeps its place, a new key goes last
MapSet(m, key, val) ==
  IF MapHas(m, key)
  THEN [i \in 1..Len(m) |-> IF m[i].k = key THEN [k |-> key, v |-> val] ELSE m[i]]
  ELSE Append(m, [k |-> key, v |-> val])

\* delete m[key]
MapDelete(m, key) == SelectSeq(m, LAMBDA e : e.k # key)

(***************************************************************************)
(* shared/version.ts                                                       *)
(***************************************************************************)
\* formatVersion(major, minor, update): build === undefined
formatVersion3(major, minor, update) ==
  NumToString(major) \o <<".">> \o padStart(NumToString(minor), 2)
    \o <<".">> \o padStart(NumToString(update), 3)

\* formatVersion(major, minor, update, build)
formatVersion(major, minor, update, build) ==
  formatVersion3(major, minor, update) \o <<".">> \o padStart(NumToString(build), 3)

VersionTypes == {"major", "minor", "update", "build"}

\* a plausible slip: the update case forgets to reset build
incrementNumbersNoReset(current, type) ==
  CASE type = "major" ->
         [current EXCEPT !.major = @ + 1, !.minor = 0, !.update = 0, !.build = 0]
    [] type = "minor" ->
         [current EXCEPT !.minor = @ + 1, !.update = 0, !.build = 0]
    [] type = "update" ->
         [current EXCEPT !.update = @ + 1]
    [] type = "build" ->
         [current EXCEPT !.build = @ + 1]

\* a plausible slip: the build case resets instead of adding one
incrementNumbersBuildStuck(current, type) ==
  CASE type = "major" ->
         [current EXCEPT !.major = @ + 1, !.minor = 0, !.update = 0, !.build = 0]
    [] type = "minor" ->
         [current EXCEPT !.minor = @ + 1, !.update = 0, !.build = 0]
    [] type = "update" ->
         [current EXCEPT !.update = @ + 1, !.build = 0]
    [] type = "build" ->
         [current EXCEPT !.build = 0]

\* the switch of incrementVersion
incrementNumbers(current, type) ==
  CASE type = "major" ->
         [current EXCEPT !.major = @ + 1, !.minor = 0, !.update = 0, !.build = 0]
    [] type = "minor" ->
         [current EXCEPT !.minor = @ + 1, !.update = 0, !.build = 0]
    [] type = "update" ->
         [current EXCEPT !.update = @ + 1, !.build = 0]
    [] type = "build" ->
         [current EXCEPT !.build = @ + 1]

\* incrementVersion(current, type): a copy with the numbers stepped and the
\* version string formatted from them
incrementVersion(current, type) ==
  LET n == incrementNumbers(current, type)
  IN  [n EXCEPT !.version = formatVersion(n.major, n.minor, n.update, n.build)]

(***************************************************************************)
(* VersionManager.migrateVersionFormat                                     *)
(***************************************************************************)
\* a plausible slip: '.000' appended without looking at the number of parts
migrateStringAlways(str) == str \o DotZeros

\* a plausible slip: the string is left as it is
migrateStringNever(str) == str

\* s.split('.').length === 3 ? `${s}.000` : s
migrateString(str) ==
  IF Len(split(str)) = 3 THEN str \o DotZeros ELSE str

\* if (versionData.build === undefined) versionData.build = 0
migrateBuild(versionData) ==
  IF Has(versionData, "build") THEN versionData
  ELSE SetField(versionData, "build", 0)

\* if (versionData.version && ...split('.').length === 3) version += '.000'
\* (the empty string is falsy, and has one part anyway)
migrateTopVersion(versionData) ==
  IF Has(versionData, "version") /\ versionData.version # <<>>
  THEN [versionData EXCEPT !.version = migrateString(@)]
  ELSE versionData

\* the forEach over Object.entries(versionData.releases), in entry order
RECURSIVE migrateReleaseEntries(_, _)
migrateReleaseEntries(entries, migratedReleases) ==
  IF entries = <<>> THEN migratedReleases
  ELSE LET key == entries[1].k
           release == entries[1].v
           migratedRelease == [release EXCEPT !.version = migrateString(@)]
       IN  migrateReleaseEntries(Tail(entries),
             MapSet(migratedReleases, migrateString(key), migratedRelease))

migrateReleases(versionData) ==
  IF Has(versionData, "releases")
  THEN [versionData EXCEPT !.releases = migrateReleaseEntries(@, <<>>)]
  ELSE versionData

\* the forEach over Object.entries(versionData.changelog), in entry order
RECURSIVE migrateChangelogEntries(_, _)
migrateChangelogEntries(entries, migratedChangelog) ==
  IF entries = <<>> THEN migratedChangelog
  ELSE migrateChangelogEntries(Tail(entries),
         MapSet(migratedChangelog, migrateString(entries[1].k), entries[1].v))

migrateChangelog(versionData) ==
  IF Has(versionData, "changelog")
  THEN [versionData EXCEPT !.changelog = migrateChangelogEntries(@, <<>>)]
  ELSE versionData

\* a plausible slip: build defaulted, the version string not converted
migrateVersionFormatNoTop(versionData) ==
  migrateChangelog(migrateReleases(migrateBuild(versionData)))

migrateVersionFormat(versionData) ==
  migrateChangelog(migrateReleases(migrateTopVersion(migrateBuild(versionData))))

(***************************************************************************)
(* calculateImpactScore                                                    *)
(***************************************************************************)
highImpactKeywords ==
  << <<"s", "e", "c", "u", "r", "i", "t", "y">>,
     <<"p", "e", "r", "f", "o", "r", "m", "a", "n", "c", "e">>,
     <<"a", "u", "t", "h", "e", "n", "t", "i", "c", "a", "t", "i", "o", "n">>,
     <<"d", "a", "t", "a", "b", "a", "s", "e">>,
     <<"a", "p", "i">>,
     <<"i", "n", "t", "e", "g", "r", "a", "t", "i", "o", "n">>,
     <<"u", "i">>,
     <<"u", "x">>,
     <<"a", "c", "c", "e", "s", "s", "i", "b", "i", "l", "i", "t", "y">>,
     <<"o", "p", "t", "i", "m", "i", "z", "a", "t", "i", "o", "n">>,
     <<"a", "r", "c", "h", "i", "t", "e", "c", "t", "u", "r", "e">>,
     <<"f", "r", "a", "m", "e", "w", "o", "r", "k">>,
     <<"m", "i", "g", "r", "a", "t", "i", "o", "n">>,
     <<"b", "r", "e", "a", "k", "i", "n", "g">> >>

UpperToLower ==
  ("A" :> "a") @@ ("B" :> "b") @@ ("C" :> "c") @@ ("D" :> "d") @@ ("E" :> "e")
  @@ ("F" :> "f") @@ ("G" :> "g") @@ ("H" :> "h") @@ ("I" :> "i") @@ ("J" :> "j")
  @@ ("K" :> "k") @@ ("L" :> "l") @@ ("M" :> "m") @@ ("N" :> "n") @@ ("O" :> "o")
  @@ ("P" :> "p") @@ ("Q" :> "q") @@ ("R" :> "r") @@ ("S" :> "s") @@ ("T" :> "t")
  @@ ("U" :> "u") @@ ("V" :> "v") @@ ("W" :> "w") @@ ("X" :> "x") @@ ("Y" :> "y")
  @@ ("Z" :> "z")

\* String.prototype.toLowerCase()
toLowerCase(s) ==
  [i \in 1..Len(s) |-> IF s[i] \in DOMAIN UpperToLower THEN UpperToLower[s[i]] ELSE s[i]]

\* String.prototype.includes(keyword)
includes(text, keyword) ==
  \E i \in 1..(Len(text) - Len(keyword) + 1) :
     SubSeq(text, i, i + Len(keyword) - 1) = keyword

\* a slip: the bump types of updateVersion as keys, so that feature and
\* fix are unknown
typeScoreByBump(type) ==
  CASE type = "major" -> 100
    [] type = "minor" -> 70
    [] type = "update" -> 40
    [] type = "build" -> 20
    [] OTHER -> 0

\* typeScores[release.type] || 0
typeScore(type) ==
  CASE type = "major" -> 100
    [] type = "feature" -> 70
    [] type = "update" -> 40
    [] type = "fix" -> 20
    [] OTHER -> 0

\* the score before Math.min(score, 200)
rawImpactScore(release) ==
  LET technicalText == IF Has(release, "technical")
                       THEN join(release.technical, <<" ">>) ELSE <<>>
      allText == toLowerCase(release.title \o <<" ">> \o release.summary \o <<" ">>
                   \o join(release.changes, <<" ">>) \o <<" ">> \o technicalText)
  IN  typeScore(release.type)
      + Len(release.changes) * 5
      + (IF Has(release, "technical") THEN Len(release.technical) * 3 ELSE 0)
      + 10 * Cardinality({i \in 1..Len(highImpactKeywords) :
                            includes(allText, highImpactKeywords[i])})

\* a slip: Math.max for Math.min
calculateImpactScoreMax(release) ==
  IF rawImpactScore(release) > 200 THEN rawImpactScore(release) ELSE 200

\* a plausible slip: the cap is forgotten
calculateImpactScoreNoCap(release) == rawImpactScore(release)

calculateImpactScore(release) ==
  IF rawImpactScore(release) < 200 THEN rawImpactScore(release) ELSE 200

(***************************************************************************)
(* VersionManager: the persisted document and the calls on it.             *)
(* file is the parsed content of version.json, or Unreadable when the file *)
(* does not exist or does not parse.                                       *)
(***************************************************************************)
Unreadable == [unreadable |-> TRUE]

SeedEntry ==
  <<"I", "m", "p", "l", "e", "m", "e", "n", "t", "e", "d", " ", "c", "o",
    "m", "p", "r", "e", "h", "e", "n", "s", "i", "v", "e", " ", "v", "e",
    "r", "s", "i", "o", "n", " ", "i", "m", "p", "a", "c", "t", " ", "s",
    "c", "o", "r", "i", "n", "g", " ", "t", "o", " ", "h", "i", "g", "h",
    "l", "i", "g", "h", "t", " ", "k", "e", "y", " ", "i", "m", "p", "r",
    "o", "v", "e", "m", "e", "n", "t", "s", " ", "a", "n", "d", " ", "s",
    "y", "s", "t", "e", "m", " ", "c", "h", "a", "n", "g", "e", "s">>

DefaultVersion ==
  <<"0", ".", "0", "1", ".", "0", "1", "2", ".", "0", "0", "0">>

\* the literal getCurrentVersion returns when there is nothing to read
DefaultDocument ==
  [version |-> DefaultVersion,
   major |-> 0, minor |-> 1, update |-> 12, build |-> 0,
   changelog |-> <<[k |-> DefaultVersion, v |-> SeedEntry]>>,
   releases |-> <<>>]

\* a file that exists and whose content JSON.parse rejects
Garbled == [unreadable |-> TRUE, garbled |-> TRUE]

\* the outcome of a call that ends with an exception
Raised == [raised |-> TRUE]

\* migrateVersionFormat throws a TypeError: release.version.split on a
\* release that has no version
migrationThrows(versionData) ==
  /\ Has(versionData, "releases")
  /\ \E i \in 1..Len(versionData.releases) :
        ~Has(versionData.releases[i].v, "version")

\* the try block of getCurrentVersion leaves through its catch, or the file
\* does not exist
readFails(stored) ==
  Has(stored, "unreadable") \/ migrationThrows(stored)

\* a slip: a failure of the migration is caught on its own and the parsed
\* document is used without its releases
getCurrentVersionKeepBroken(stored) ==
  IF Has(stored, "unreadable") THEN DefaultDocument
  ELSE IF migrationThrows(stored)
       THEN migrateVersionFormat([stored EXCEPT !.releases = <<>>])
  ELSE migrateVersionFormat(stored)

\* a plausible slip: the migration runs outside the try block
getCurrentVersionUncaught(stored) ==
  IF Has(stored, "unreadable") THEN DefaultDocument
  ELSE IF migrationThrows(stored) THEN Raised
  ELSE migrateVersionFormat(stored)

getCurrentVersion(stored) ==
  IF readFails(stored) THEN DefaultDocument
  ELSE migrateVersionFormat(stored)

\* insertion of key into keys sorted by descending date: behind every key
\* whose date is not earlier (Array.prototype.sort is stable)
RECURSIVE insertByDate(_, _, _)
insertByDate(sorted, key, releases) ==
  IF sorted = <<>> THEN <<key>>
  ELSE IF MapGet(releases, sorted[1]).date >= MapGet(releases, key).date
       THEN <<sorted[1]>> \o insertByDate(Tail(sorted), key, releases)
       ELSE <<key>> \o sorted

RECURSIVE sortByDateDesc(_, _, _)
sortByDateDesc(keys, sorted, releases) ==
  IF keys = <<>> THEN sorted
  ELSE sortByDateDesc(Tail(keys), insertByDate(sorted, keys[1], releases), releases)

\* Object.keys(releases).sort((a, b) => date(b) - date(a))
sortedReleases(releases) ==
  sortByDateDesc([i \in 1..Len(releases) |-> releases[i].k], <<>>, releases)

\* a plausible slip: the earliest release is taken
latestReleaseKeyOldest(releases) ==
  sortedReleases(releases)[Len(releases)]

latestReleaseKey(releases) == sortedReleases(releases)[1]

\* a plausible slip: the titles are not compared
titlesMatchAlways(latestRelease, releaseInfo) == TRUE

\* latestRelease && latestRelease.title === releaseInfo.title
titlesMatch(latestRelease, releaseInfo) ==
  latestRelease.title = releaseInfo.title

\* a plausible slip: minor is stored as 'minor', build as 'build'
releaseTypeSame(type) == type

\* type === 'major' ? 'major' : type === 'minor' ? 'feature'
\*   : type === 'build' ? 'fix' : 'update'
releaseType(type) ==
  IF type = "major" THEN "major"
  ELSE IF type = "minor" THEN "feature"
  ELSE IF type = "build" THEN "fix"
  ELSE "update"

\* the entries of incoming that existing does not hold, pushed behind it
\* (the Set is built once, before the pushes)
mergeUnique(existing, incoming) ==
  existing \o SelectSeq(incoming, LAMBDA x : x \notin Range(existing))

\* a plausible slip: the old key is kept beside the new one
moveReleaseKeep(releases, oldKey, newKey, release) ==
  IF oldKey # newKey THEN MapSet(releases, newKey, release) ELSE releases

\* if (latestReleaseKey !== newVersion.version) { releases[new] = latest;
\*   delete releases[latestReleaseKey] }
moveRelease(releases, oldKey, newKey, release) ==
  IF oldKey # newKey
  THEN MapDelete(MapSet(releases, newKey, release), oldKey)
  ELSE releases

\* a plausible slip: the score is not recomputed after the merge
rescoreStale(release) == release

\* latestRelease.impactScore = calculateImpactScore(latestRelease)
rescore(release) ==
  SetField(release, "impactScore", calculateImpactScore(release))

\* the consolidation branch of updateVersion on the release at key
consolidate(newVersion, key, releaseInfo, t) ==
  LET latestRelease == MapGet(newVersion.releases, key)
      stamped == [latestRelease EXCEPT !.version = newVersion.version,
                                       !.date = t,
                                       !.summary = releaseInfo.summary,
                                       !.changes = mergeUnique(@, releaseInfo.changes)]
      withTechnical ==
        IF Has(releaseInfo, "technical")
        THEN SetField(stamped, "technical",
               mergeUnique(IF Has(stamped, "technical") THEN stamped.technical ELSE <<>>,
                           releaseInfo.technical))
        ELSE stamped
      merged == rescore(withTechnical)
  IN  [newVersion EXCEPT !.releases =
         moveRelease(MapSet(@, key, merged), key, newVersion.version, merged)]

\* createNewRelease(versionInfo, releaseInfo, type)
createNewRelease(versionInfo, releaseInfo, type, t) ==
  LET withReleases == IF Has(versionInfo, "releases") THEN versionInfo
                      ELSE SetField(versionInfo, "releases", <<>>)
      base == [version |-> versionInfo.version,
               date |-> t,
               title |-> releaseInfo.title,
               type |-> releaseType(type),
               summary |-> releaseInfo.summary,
               changes |-> releaseInfo.changes]
      release == IF Has(releaseInfo, "technical")
                 THEN SetField(base, "technical", releaseInfo.technical)
                 ELSE base
  IN  [withReleases EXCEPT !.releases =
         MapSet(@, versionInfo.version, rescore(release))]

\* a slip: the flag is not looked at, every call creates a release
wantsConsolidationIgnored(newVersion, releaseInfo) == FALSE

\* releaseInfo.consolidateWithPrevious && Object.keys(releases).length > 0
wantsConsolidation(newVersion, releaseInfo) ==
  /\ Has(releaseInfo, "consolidateWithPrevious")
  /\ releaseInfo.consolidateWithPrevious
  /\ Len(newVersion.releases) > 0

\* the if (releaseInfo) block of updateVersion
recordRelease(newVersion0, releaseInfo, type, t) ==
  LET newVersion == IF Has(newVersion0, "releases") THEN newVersion0
                    ELSE SetField(newVersion0, "releases", <<>>)
  IN  IF wantsConsolidation(newVersion, releaseInfo)
      THEN LET key == latestReleaseKey(newVersion.releases)
           IN  IF titlesMatch(MapGet(newVersion.releases, key), releaseInfo)
               THEN consolidate(newVersion, key, releaseInfo, t)
               ELSE createNewRelease(newVersion, releaseInfo, type, t)
      ELSE createNewRelease(newVersion, releaseInfo, type, t)

\* a plausible slip: the changelog is restarted with the new entry
setChangelogOnly(newVersion, changelogEntry) ==
  [newVersion EXCEPT !.changelog = <<[k |-> newVersion.version, v |-> changelogEntry]>>]

\* newVersion.changelog[newVersion.version] = changelogEntry
setChangelog(newVersion, changelogEntry) ==
  [newVersion EXCEPT !.changelog = MapSet(@, newVersion.version, changelogEntry)]

\* updateVersion(type, changelogEntry, releaseInfo?) on the loaded document:
\* the document it writes and returns.  call holds type, changelogEntry and,
\* when given, releaseInfo.
updateVersion(currentVersion, call, t) ==
  LET newVersion == setChangelog(incrementVersion(currentVersion, call.type),
                                 call.changelogEntry)
      released == IF Has(call, "releaseInfo")
                  THEN recordRelease(newVersion, call.releaseInfo, call.type, t)
                  ELSE newVersion
  IN  migrateVersionFormat(released)

\* a slip: the changelog is restarted with the entry
addChangelogEntryFresh(currentVersion, changelogEntry) ==
  [currentVersion EXCEPT !.changelog = <<[k |-> currentVersion.version, v |-> changelogEntry]>>]

\* addChangelogEntry(changelogEntry) on the loaded document: what it writes
addChangelogEntry(currentVersion, changelogEntry) ==
  [currentVersion EXCEPT !.changelog = MapSet(@, currentVersion.version, changelogEntry)]

\* a slip: the score is computed as in createNewRelease
addReleaseRescored(currentVersion, release) ==
  LET withReleases == IF Has(currentVersion, "releases") THEN currentVersion
                      ELSE SetField(currentVersion, "releases", <<>>)
  IN  [withReleases EXCEPT !.releases = MapSet(@, release.version, rescore(release))]

\* addRelease(release) on the loaded document: what it writes
addRelease(currentVersion, release) ==
  LET withReleases == IF Has(currentVersion, "releases") THEN currentVersion
                      ELSE SetField(currentVersion, "releases", <<>>)
  IN  [withReleases EXCEPT !.releases = MapSet(@, release.version, release)]

(***************************************************************************)
(* Texts the model's callers pass.                                         *)
(***************************************************************************)
TitleFix == <<"F", "i", "x", " ", "l", "o", "g", "i", "n">>

TitleOther == <<"U", "n", "r", "e", "l", "a", "t", "e", "d", " ", "f", "i", "x">>

SummaryOne == <<"S", "1">>

SummaryTwo == <<"S", "2">>

ChangeA == <<"A">>

ChangeB == <<"B">>

TechOne == <<"t", "1">>

EntryOne == <<"e", "1">>

EntryTwo == <<"e", "2">>

(***************************************************************************)
(* SpecMigrate: migrateVersionFormat applied, and applied again, to parsed *)
(* documents in the old and the new format.                                *)
(***************************************************************************)
\* largest number of changelog entries and of releases in a drawn document
MaxEntries == 2

LegacyKey == formatVersion3(1, 2, 3)

RawKeys == {LegacyKey, formatVersion(1, 2, 3, 0), formatVersion(1, 2, 3, 1)}

RawRelease(version) ==
  [version |-> version, date |-> 1, title |-> TitleFix, type |-> "fix",
   summary |-> SummaryOne, changes |-> <<ChangeA>>, impactScore |-> 25]

DistinctKeys(m) == \A i, j \in 1..Len(m) : m[i].k = m[j].k => i = j

SeqsUpTo(S, n) == UNION {[1..len -> S] : len \in 0..n}

RawChangelogs ==
  {m \in SeqsUpTo([k : RawKeys, v : {EntryOne, EntryTwo}], MaxEntries) :
     DistinctKeys(m)}

RawReleaseMaps ==
  {m \in SeqsUpTo([k : RawKeys,
                   v : {RawRelease(LegacyKey), RawRelease(formatVersion(1, 2, 3, 0))}],
                  MaxEntries) :
     DistinctKeys(m)}

RawNumbers == [major |-> 1, minor |-> 2, update |-> 3]

RawDocs ==
  LET base == {SetField(SetField(RawNumbers, "version", v), "changelog", c) :
                 v \in {LegacyKey, formatVersion(1, 2, 3, 0)}, c \in RawChangelogs}
      withBuild == base \cup {SetField(d, "build", 0) : d \in base}
  IN  withBuild \cup {SetField(d, "releases", r) : d \in withBuild, r \in RawReleaseMaps}

InitMigrate ==
  /\ file \in RawDocs
  /\ now = 0
  /\ steps = 0
  /\ last = NoCall
  /\ issued = <<>>
  /\ inflight = <<>>
  /\ retry = NoRetry

\* one application; the next one is applied to its result
ApplyMigrate ==
  /\ steps < 2
  /\ last' = [op |-> "migrateVersionFormat", cur |-> file,
              ret |-> migrateVersionFormat(file),
              first |-> IF steps = 0 THEN file ELSE last.first]
  /\ file' = migrateVersionFormat(file)
  /\ steps' = steps + 1
  /\ UNCHANGED <<now, issued, inflight, retry>>

NextMigrate == ApplyMigrate

SpecMigrate == InitMigrate /\ [][NextMigrate]_vars

\* C10: migration is idempotent: applied to its own result (a document with
\* or without build, a 3- or 4-part version, changelog keys and release
\* keys of either form) it returns that result unchanged.
C10_MigrateIdempotent ==
  (last.op = "migrateVersionFormat" /\ steps = 2) => last.ret = last.cur

C10_Witness ==
  /\ last.op = "migrateVersionFormat"
  /\ steps = 2
  /\ ~Has(last.first, "build")
  /\ last.first.version = LegacyKey
  /\ Has(last.first, "releases")
  /\ MapHas(last.first.releases, LegacyKey)
  /\ MapHas(last.first.changelog, LegacyKey)
  /\ last.first # last.cur
  /\ last.ret = last.cur

(***************************************************************************)
(* SpecIncrement: incrementVersion on every version with components up to  *)
(* MaxComponent.                                                           *)
(***************************************************************************)
Components == 0..MaxComponent

VersionDoc(ma, mi, up, bu) ==
  [version |-> formatVersion(ma, mi, up, bu),
   major |-> ma, minor |-> mi, update |-> up, build |-> bu,
   changelog |-> <<>>, releases |-> <<>>]

InitIncrement ==
  /\ file \in {VersionDoc(ma, mi, up, bu) :
                 ma \in Components, mi \in Components,
                 up \in Components, bu \in Components}
  /\ now = 0
  /\ steps = 0
  /\ last = NoCall
  /\ issued = <<>>
  /\ inflight = <<>>
  /\ retry = NoRetry

ApplyIncrement ==
  /\ steps = 0
  /\ \E type \in VersionTypes :
       last' = [op |-> "incrementVersion", type |-> type, cur |-> file,
                ret |-> incrementVersion(file, type)]
  /\ steps' = 1
  /\ UNCHANGED <<file, now, issued, inflight, retry>>

NextIncrement == ApplyIncrement

SpecIncrement == InitIncrement /\ [][NextIncrement]_vars

\* C1: incrementVersion(v, kind): build -> build+1, the rest unchanged;
\* update -> update+1, build 0, major and minor unchanged; minor -> minor+1,
\* update and build 0, major unchanged; major -> major+1, the rest 0.
C1_IncrementRules ==
  last.op = "incrementVersion" =>
    LET c == last.cur
        r == last.ret
    IN  /\ last.type = "build" =>
             /\ r.build = c.build + 1
             /\ r.major = c.major /\ r.minor = c.minor /\ r.update = c.update
        /\ last.type = "update" =>
             /\ r.update = c.update + 1 /\ r.build = 0
             /\ r.major = c.major /\ r.minor = c.minor
        /\ last.type = "minor" =>
             /\ r.minor = c.minor + 1 /\ r.update = 0 /\ r.build = 0
             /\ r.major = c.major
        /\ last.type = "major" =>
             /\ r.major = c.major + 1
             /\ r.minor = 0 /\ r.update = 0 /\ r.build = 0

C1_Witness ==
  /\ last.op = "incrementVersion"
  /\ last.type = "update"
  /\ last.cur.build > 0
  /\ last.cur.minor > 0
  /\ last.ret.build = 0

(***************************************************************************)
(* The calls as actions.  Each is the whole call: load (with migration),   *)
(* change, write.  t is what new Date() returns during the call: the clock *)
(* has advanced by one of the steps in dts since the call before.          *)
(***************************************************************************)
UpdateVersionCall(limit, calls, dts) ==
  /\ steps < limit
  /\ \E call \in calls, dt \in dts :
       LET t == now + dt
           cur == getCurrentVersion(file)
           ret == updateVersion(cur, call, t)
       IN  /\ file' = ret
           /\ now' = t
           /\ last' = [op |-> "updateVersion", call |-> call, t |-> t,
                       before |-> file, cur |-> cur, ret |-> ret]
           /\ issued' = Append(issued, ret.version)
  /\ steps' = steps + 1
  /\ UNCHANGED <<inflight, retry>>

AddChangelogEntryCall(limit, entries) ==
  /\ steps < limit
  /\ \E entry \in entries :
       LET cur == getCurrentVersion(file)
       IN  /\ file' = addChangelogEntry(cur, entry)
           /\ last' = [op |-> "addChangelogEntry", entry |-> entry,
                       before |-> file, cur |-> cur]
  /\ steps' = steps + 1
  /\ UNCHANGED <<now, issued, inflight, retry>>

AddReleaseCall(limit, given) ==
  /\ steps < limit
  /\ \E release \in given :
       LET cur == getCurrentVersion(file)
       IN  /\ file' = addRelease(cur, release)
           /\ last' = [op |-> "addRelease", release |-> release,
                       before |-> file, cur |-> cur]
  /\ steps' = steps + 1
  /\ UNCHANGED <<now, issued, inflight, retry>>

(***************************************************************************)
(* Spec: the ledger from a missing file, a document in the current format  *)
(* and documents in the old format, under MaxOps calls.                    *)
(***************************************************************************)
\* the clock value every stored date of an initial document lies before
StartTime == 5

StoredRelease(version) ==
  rescore([version |-> version, date |-> StartTime - 1, title |-> TitleFix,
           type |-> "feature", summary |-> SummaryOne, changes |-> <<ChangeA>>])

\* written by the current code at version 1.02.003.000
CurrentDocument ==
  [version |-> formatVersion(1, 2, 3, 0),
   major |-> 1, minor |-> 2, update |-> 3, build |-> 0,
   changelog |-> <<[k |-> formatVersion(1, 2, 2, 0), v |-> EntryTwo],
                   [k |-> formatVersion(1, 2, 3, 0), v |-> EntryOne]>>,
   releases |-> <<[k |-> formatVersion(1, 2, 3, 0),
                   v |-> StoredRelease(formatVersion(1, 2, 3, 0))]>>]

\* written before build numbers: 3-part strings, no build field
LegacyDocument ==
  [version |-> formatVersion3(1, 2, 3),
   major |-> 1, minor |-> 2, update |-> 3,
   changelog |-> <<[k |-> formatVersion3(1, 2, 2), v |-> EntryTwo],
                   [k |-> formatVersion3(1, 2, 3), v |-> EntryOne]>>,
   releases |-> <<[k |-> formatVersion3(1, 2, 3),
                   v |-> StoredRelease(formatVersion3(1, 2, 3))]>>]

\* written before releases were recorded
LegacyDocumentNoReleases ==
  [version |-> formatVersion3(1, 2, 3),
   major |-> 1, minor |-> 2, update |-> 3,
   changelog |-> <<[k |-> formatVersion3(1, 2, 3), v |-> EntryOne]>>]

InitialFiles ==
  {Unreadable, CurrentDocument, LegacyDocument, LegacyDocumentNoReleases}

InfoPlain ==
  [title |-> TitleFix, summary |-> SummaryOne, changes |-> <<ChangeA>>]

InfoSameTitle ==
  [title |-> TitleFix, summary |-> SummaryTwo, changes |-> <<ChangeA, ChangeB>>,
   technical |-> <<TechOne>>, consolidateWithPrevious |-> TRUE]

InfoOtherTitle ==
  [title |-> TitleOther, summary |-> SummaryTwo, changes |-> <<ChangeB>>,
   consolidateWithPrevious |-> TRUE]

ReleaseInfos == {InfoPlain, InfoSameTitle, InfoOtherTitle}

CallsOf(types, entries, infos) ==
  [type : types, changelogEntry : entries]
    \cup [type : types, changelogEntry : entries, releaseInfo : infos]

\* a release for the build after 1.02.003.000, dated before the stored ones
ReleaseAhead ==
  [version |-> formatVersion(1, 2, 3, 1), date |-> 0, title |-> TitleOther,
   type |-> "fix", summary |-> SummaryOne, changes |-> <<ChangeB>>,
   impactScore |-> 7]

\* a release whose version string is in the old format, dated after them
ReleaseLegacy ==
  [version |-> formatVersion3(1, 2, 4), date |-> StartTime, title |-> TitleFix,
   type |-> "update", summary |-> SummaryOne, changes |-> <<ChangeA>>]

Init ==
  /\ file \in InitialFiles
  /\ now = StartTime
  /\ steps = 0
  /\ last = NoCall
  /\ issued = <<>>
  /\ inflight = <<>>
  /\ retry = NoRetry

UpdateVersionStep ==
  UpdateVersionCall(MaxOps, CallsOf(VersionTypes, {EntryOne}, ReleaseInfos), {0, 1})

AddChangelogEntryStep == AddChangelogEntryCall(MaxOps, {EntryTwo})

AddReleaseStep == AddReleaseCall(MaxOps, {ReleaseAhead, ReleaseLegacy})

Next ==
  \/ UpdateVersionStep
  \/ AddChangelogEntryStep
  \/ AddReleaseStep

Spec == Init /\ [][Next]_vars

(***************************************************************************)
(* Vocabulary of the claims.                                               *)
(***************************************************************************)
Consistent(doc) ==
  doc.version = formatVersion(doc.major, doc.minor, doc.update, doc.build)

Numbers(doc) == <<doc.major, doc.minor, doc.update, doc.build>>

\* lexicographic order on tuples of four numbers
LexLess(a, b) ==
  \E i \in 1..4 : a[i] < b[i] /\ \A j \in 1..(i - 1) : a[j] = b[j]

NoRepeat(list) == \A i, j \in 1..Len(list) : list[i] = list[j] => i = j

FourParts(str) == Len(split(str)) = 4

ReleasesOf(doc) == IF Has(doc, "releases") THEN doc.releases ELSE <<>>

\* the key of the release with the greatest date; among equal dates, the
\* one Object.keys lists first
LatestKey(releases) ==
  releases[CHOOSE i \in 1..Len(releases) :
             \A j \in 1..Len(releases) :
                \/ releases[j].v.date < releases[i].v.date
                \/ releases[j].v.date = releases[i].v.date /\ i <= j].k

Updated == last.op = "updateVersion"

WithInfo == Updated /\ Has(last.call, "releaseInfo")

FlagSet ==
  /\ WithInfo
  /\ Has(last.call.releaseInfo, "consolidateWithPrevious")
  /\ last.call.releaseInfo.consolidateWithPrevious
  /\ ReleasesOf(last.cur) # <<>>

\* the call on record met a latest-dated release with the title it gave
Consolidating ==
  /\ FlagSet
  /\ MapGet(ReleasesOf(last.cur), LatestKey(ReleasesOf(last.cur))).title
       = last.call.releaseInfo.title

\* the call on record carried release information and did not consolidate
Creating == WithInfo /\ ~Consolidating

\* the flag was set, releases existed, and the latest one had another title
Mismatching == FlagSet /\ ~Consolidating

Saved == last.op \in {"updateVersion", "addChangelogEntry", "addRelease"}

\* C2: in every document getCurrentVersion returns for a persisted document
\* (old format or new) and in every document updateVersion returns, the
\* version string is formatVersion of the document's four numbers.
C2_StringMatchesNumbers ==
  /\ Consistent(getCurrentVersion(file))
  /\ Saved => Consistent(last.cur)
  /\ Updated => Consistent(last.ret)

C2_Witness ==
  /\ Updated
  /\ last.before = LegacyDocument
  /\ last.cur.version = formatVersion(1, 2, 3, 0)
  /\ last.cur.build = 0
  /\ last.ret.version # last.cur.version

\* C4: updateVersion(kind, entry, ...) on the loaded document cur returns
\* version and numbers of incrementVersion(cur, kind), changelog[new
\* version] = entry, and every other changelog key with its previous value,
\* with or without releaseInfo.
C4_UpdateSetsVersionAndChangelog ==
  Updated =>
    LET inc == incrementVersion(last.cur, last.call.type)
        ret == last.ret
    IN  /\ ret.version = inc.version
        /\ Numbers(ret) = Numbers(inc)
        /\ MapHas(ret.changelog, ret.version)
        /\ MapGet(ret.changelog, ret.version) = last.call.changelogEntry
        /\ MapKeys(ret.changelog) = MapKeys(last.cur.changelog) \cup {ret.version}
        /\ DistinctKeys(ret.changelog)
        /\ \A key \in MapKeys(last.cur.changelog) \ {ret.version} :
              MapGet(ret.changelog, key) = MapGet(last.cur.changelog, key)
        /\ file = ret

C4_Witness ==
  /\ WithInfo
  /\ Consolidating
  /\ last.call.type = "update"
  /\ Cardinality(MapKeys(last.cur.changelog)) = 2
  /\ Cardinality(MapKeys(last.ret.changelog)) = 3

\* C5: updateVersion with releaseInfo and without consolidation stores, at
\* the new version string, a release with that version, the title, summary,
\* changes and technical of releaseInfo, and the type major -> major,
\* minor -> feature, update -> update, build -> fix.
C5_CreatedRelease ==
  Creating =>
    LET info == last.call.releaseInfo
        key == last.ret.version
    IN  /\ MapHas(last.ret.releases, key)
        /\ LET release == MapGet(last.ret.releases, key)
           IN  /\ release.version = key
               /\ release.title = info.title
               /\ release.summary = info.summary
               /\ release.changes = info.changes
               /\ Has(release, "technical") = Has(info, "technical")
               /\ Has(info, "technical") => release.technical = info.technical
               /\ last.call.type = "major" => release.type = "major"
               /\ last.call.type = "minor" => release.type = "feature"
               /\ last.call.type = "update" => release.type = "update"
               /\ last.call.type = "build" => release.type = "fix"
        /\ file = last.ret

C5_Witness ==
  /\ Creating
  /\ Mismatching
  /\ last.call.type = "minor"
  /\ MapGet(last.ret.releases, last.ret.version).type = "feature"

\* C6 as stated: after a consolidation of the latest-dated release (key V1)
\* the release map has as many entries as before, V1 is absent, the new
\* version V2 is present, and the release at V2 has version V2 and the
\* summary of releaseInfo.
C6_AsStated ==
  Consolidating =>
    LET before == ReleasesOf(last.cur)
        after == last.ret.releases
    IN  /\ Len(after) = Len(before)
        /\ ~MapHas(after, LatestKey(before))
        /\ MapHas(after, last.ret.version)
        /\ MapGet(after, last.ret.version).version = last.ret.version
        /\ MapGet(after, last.ret.version).summary = last.call.releaseInfo.summary

\* C6, amended: after a consolidation the keys of the release map are the
\* keys before without V1 and with V2, the release at V2 has version V2 and
\* the summary of releaseInfo; when no release was stored under V2 before
\* the call, the map has as many entries as before and V1 is absent.
C6_ConsolidationMovesKey ==
  Consolidating =>
    LET before == ReleasesOf(last.cur)
        after == last.ret.releases
        V1 == LatestKey(before)
        V2 == last.ret.version
    IN  /\ MapKeys(after) = (MapKeys(before) \ {V1}) \cup {V2}
        /\ DistinctKeys(after)
        /\ MapGet(after, V2).version = V2
        /\ MapGet(after, V2).summary = last.call.releaseInfo.summary
        /\ ~MapHas(before, V2) => Len(after) = Len(before) /\ ~MapHas(after, V1)
        /\ file = last.ret

C6_Witness ==
  /\ Consolidating
  /\ Len(ReleasesOf(last.cur)) = 2
  /\ ~MapHas(ReleasesOf(last.cur), last.ret.version)
  /\ Len(last.ret.releases) = 2

\* C7 as stated: with the flag set and the latest-dated release under
\* another title, every release that existed is unchanged and exactly one
\* release is added, at the new version key.
C7_AsStated ==
  Mismatching =>
    LET before == ReleasesOf(last.cur)
        after == last.ret.releases
    IN  /\ \A key \in MapKeys(before) :
              MapHas(after, key) /\ MapGet(after, key) = MapGet(before, key)
        /\ Len(after) = Len(before) + 1
        /\ MapHas(after, last.ret.version)

\* C7, amended: with the flag set and the latest-dated release under
\* another title, every release of the loaded document stored under a key
\* other than the new version key is unchanged and the new release is
\* stored at the new version key; when no release was stored under that key
\* before, exactly one release is added.
C7_MismatchKeepsReleases ==
  Mismatching =>
    LET before == ReleasesOf(last.cur)
        after == last.ret.releases
        V2 == last.ret.version
    IN  /\ \A key \in MapKeys(before) \ {V2} :
              MapHas(after, key) /\ MapGet(after, key) = MapGet(before, key)
        /\ MapKeys(after) = MapKeys(before) \cup {V2}
        /\ DistinctKeys(after)
        /\ MapGet(after, V2).title = last.call.releaseInfo.title
        /\ MapGet(after, V2).date = last.t
        /\ ~MapHas(before, V2) => Len(after) = Len(before) + 1
        /\ file = last.ret

C7_Witness ==
  /\ Mismatching
  /\ Len(ReleasesOf(last.cur)) = 1
  /\ Len(last.ret.releases) = 2
  /\ last.before = LegacyDocument

\* C9 as stated: after updateVersion, addChangelogEntry or addRelease every
\* key of changelog and of releases in the persisted document has four
\* dot-separated parts.
C9_AsStated ==
  Saved =>
    /\ \A key \in MapKeys(file.changelog) : FourParts(key)
    /\ \A key \in MapKeys(ReleasesOf(file)) : FourParts(key)

(***************************************************************************)
(* SpecChain: consecutive updateVersion calls, each loading what the call  *)
(* before wrote.                                                           *)
(***************************************************************************)
\* every component at the width of its zero-padding
WideDocument ==
  [version |-> formatVersion(9, 99, 999, 999),
   major |-> 9, minor |-> 99, update |-> 999, build |-> 999,
   changelog |-> <<[k |-> formatVersion(9, 99, 999, 999), v |-> EntryOne]>>,
   releases |-> <<>>]

InitChain ==
  /\ file \in InitialFiles \cup {WideDocument}
  /\ now = StartTime
  /\ steps = 0
  /\ last = NoCall
  /\ issued = <<>>
  /\ inflight = <<>>
  /\ retry = NoRetry

ChainStep ==
  UpdateVersionCall(MaxChain, CallsOf(VersionTypes, {EntryOne}, {}), {1})

NextChain == ChainStep

SpecChain == InitChain /\ [][NextChain]_vars

\* C3: in a sequence of updateVersion calls, each loading the document the
\* call before wrote, the persisted (major, minor, update, build) after a
\* call is lexicographically greater than before it, and no version string
\* is produced twice.
C3_Monotonic ==
  /\ Updated => LexLess(Numbers(last.cur), Numbers(file))
  /\ Updated /\ steps > 1 => Numbers(last.cur) = Numbers(last.before)
  /\ Updated => last.ret.version # last.cur.version
  /\ NoRepeat(issued)

C3_Witness ==
  /\ Len(issued) = MaxChain
  /\ last.call.type = "minor"
  /\ last.cur.minor = 99
  /\ last.cur.build > 999

(***************************************************************************)
(* SpecDefault: updateVersion calls from the default document (no file),   *)
(* with texts that hold many of the keywords.                              *)
(***************************************************************************)
TitleHot ==
  <<"B", "r", "e", "a", "k", "i", "n", "g", " ", "f", "r", "a", "m", "e", "w",
    "o", "r", "k", " ", "m", "i", "g", "r", "a", "t", "i", "o", "n">>

SummaryHot ==
  <<"S", "e", "c", "u", "r", "i", "t", "y", ",", " ", "P", "e", "r", "f", "o",
    "r", "m", "a", "n", "c", "e", ",", " ", "a", "u", "t", "h", "e", "n", "t",
    "i", "c", "a", "t", "i", "o", "n", ",", " ", "d", "a", "t", "a", "b", "a",
    "s", "e", " ", "A", "P", "I", " ", "i", "n", "t", "e", "g", "r", "a", "t",
    "i", "o", "n", ":", " ", "U", "I", "/", "U", "X", " ", "a", "c", "c", "e",
    "s", "s", "i", "b", "i", "l", "i", "t", "y", " ", "o", "p", "t", "i", "m",
    "i", "z", "a", "t", "i", "o", "n">>

ChangeHot ==
  <<"n", "e", "w", " ", "a", "r", "c", "h", "i", "t", "e", "c", "t", "u", "r", "e">>

InfoHot ==
  [title |-> TitleHot, summary |-> SummaryHot, changes |-> <<ChangeHot>>,
   technical |-> <<TechOne>>, consolidateWithPrevious |-> TRUE]

InfoHotPlain ==
  [title |-> TitleHot, summary |-> SummaryOne, changes |-> <<ChangeA>>]

InitDefault ==
  /\ file = Unreadable
  /\ now = StartTime
  /\ steps = 0
  /\ last = NoCall
  /\ issued = <<>>
  /\ inflight = <<>>
  /\ retry = NoRetry

DefaultStep ==
  UpdateVersionCall(MaxOps,
    CallsOf(VersionTypes, {EntryOne}, {InfoHot, InfoHotPlain, InfoSameTitle, InfoPlain}),
    {0, 1})

NextDefault == DefaultStep

SpecDefault == InitDefault /\ [][NextDefault]_vars

\* C8: after any sequence of updateVersion calls from the default document,
\* every release in the map carries an impactScore equal to
\* calculateImpactScore of its stored type, title, summary, changes and
\* technical, and that value lies in 0..200.
C8_ScoreOfStoredFields ==
  \A i \in 1..Len(ReleasesOf(file)) :
     LET release == ReleasesOf(file)[i].v
     IN  /\ Has(release, "impactScore")
         /\ release.impactScore = calculateImpactScore(release)
         /\ release.impactScore \in 0..200

\* a consolidated release whose uncapped score is above 200
C8_Witness ==
  /\ Consolidating
  /\ file = last.ret
  /\ \E i \in 1..Len(file.releases) :
        /\ file.releases[i].v.type = "major"
        /\ file.releases[i].v.summary = SummaryHot
        /\ file.releases[i].v.impactScore = 200
        /\ rawImpactScore(file.releases[i].v) > 200
        /\ file.releases[i].v.impactScore
             # MapGet(last.cur.releases, LatestKey(last.cur.releases)).impactScore

(***************************************************************************)
(* Claims on migrateVersionFormat alone (SpecMigrate).                     *)
(***************************************************************************)
Migrated == last.op = "migrateVersionFormat"

\* the 4-part form of a 3-part string; any other string as it is
Rewritten(str) == IF Len(split(str)) = 3 THEN str \o DotZeros ELSE str

\* a release with its version field in the 4-part form
RewrittenRelease(release) == [release EXCEPT !.version = Rewritten(@)]

\* the value of the last entry of m whose key is rewritten to key
LastValueFor(m, key) ==
  m[CHOOSE i \in 1..Len(m) :
      /\ Rewritten(m[i].k) = key
      /\ \A j \in 1..Len(m) : Rewritten(m[j].k) = key => j <= i].v

\* no two keys of m are rewritten to the same key
NoCollision(m) ==
  \A i, j \in 1..Len(m) : Rewritten(m[i].k) = Rewritten(m[j].k) => i = j

TopLevelRewritten(cur, ret) ==
  /\ Has(ret, "build")
  /\ ret.build = (IF Has(cur, "build") THEN cur.build ELSE 0)
  /\ ret.version = Rewritten(cur.version)
  /\ ret.major = cur.major /\ ret.minor = cur.minor /\ ret.update = cur.update
  /\ Has(ret, "releases") = Has(cur, "releases")

\* C11 as stated: build defaults to 0, a 3-part version gets '.000', and
\* every key of releases and of changelog ends at its 4-part form with its
\* value kept (a release with its version rewritten the same way); 4-part
\* strings stay as they are.
C11_AsStated ==
  Migrated =>
    LET cur == last.cur
        ret == last.ret
    IN  /\ TopLevelRewritten(cur, ret)
        /\ \A i \in 1..Len(cur.changelog) :
              /\ MapHas(ret.changelog, Rewritten(cur.changelog[i].k))
              /\ MapGet(ret.changelog, Rewritten(cur.changelog[i].k))
                   = cur.changelog[i].v
        /\ \A i \in 1..Len(ReleasesOf(cur)) :
              /\ MapHas(ret.releases, Rewritten(cur.releases[i].k))
              /\ MapGet(ret.releases, Rewritten(cur.releases[i].k))
                   = RewrittenRelease(cur.releases[i].v)

\* C11, amended: build defaults to 0, a 3-part version gets '.000', the
\* keys of releases and of changelog become their 4-part forms, and a key
\* keeps its value (a release with its version rewritten the same way)
\* unless the map also holds the other form of the same key: then one entry
\* remains under the 4-part key, with the value of the later of the two.
C11_MigrationRewrites ==
  Migrated =>
    LET cur == last.cur
        ret == last.ret
    IN  /\ TopLevelRewritten(cur, ret)
        /\ MapKeys(ret.changelog) = {Rewritten(key) : key \in MapKeys(cur.changelog)}
        /\ DistinctKeys(ret.changelog)
        /\ \A key \in MapKeys(ret.changelog) :
              MapGet(ret.changelog, key) = LastValueFor(cur.changelog, key)
        /\ MapKeys(ReleasesOf(ret)) = {Rewritten(key) : key \in MapKeys(ReleasesOf(cur))}
        /\ DistinctKeys(ReleasesOf(ret))
        /\ \A key \in MapKeys(ReleasesOf(ret)) :
              MapGet(ret.releases, key)
                = RewrittenRelease(LastValueFor(cur.releases, key))
        /\ NoCollision(cur.changelog) =>
              \A i \in 1..Len(cur.changelog) :
                 MapGet(ret.changelog, Rewritten(cur.changelog[i].k))
                   = cur.changelog[i].v
        /\ NoCollision(ReleasesOf(cur)) =>
              \A i \in 1..Len(ReleasesOf(cur)) :
                 MapGet(ret.releases, Rewritten(cur.releases[i].k))
                   = RewrittenRelease(cur.releases[i].v)

\* a document in the old format throughout, migrated once
C11_Witness ==
  /\ Migrated
  /\ steps = 1
  /\ ~Has(last.cur, "build")
  /\ last.cur.version = LegacyKey
  /\ Has(last.cur, "releases")
  /\ MapKeys(last.cur.releases) = {LegacyKey}
  /\ MapGet(last.cur.releases, LegacyKey).version = LegacyKey
  /\ MapKeys(last.cur.changelog) = {LegacyKey, formatVersion(1, 2, 3, 1)}
  /\ MapKeys(last.ret.releases) = {formatVersion(1, 2, 3, 0)}
  /\ MapGet(last.ret.releases, formatVersion(1, 2, 3, 0)).version = formatVersion(1, 2, 3, 0)
  /\ last.ret.version = formatVersion(1, 2, 3, 0)
  /\ last.ret.build = 0

(***************************************************************************)
(* SpecLoad: getCurrentVersion on a missing file, on content that does not *)
(* parse, on a document whose migration throws, and on documents in the    *)
(* old and the new format.                                                 *)
(***************************************************************************)
\* parses, and holds a release without a version
BrokenDocument ==
  [CurrentDocument EXCEPT !.releases =
     Append(@, [k |-> formatVersion(1, 2, 2, 0),
                v |-> [date |-> 1, title |-> TitleOther, type |-> "fix",
                       summary |-> SummaryOne, changes |-> <<ChangeB>>]])]

InitLoad ==
  /\ file \in InitialFiles \cup {Garbled, BrokenDocument} \cup RawDocs
  /\ now = StartTime
  /\ steps = 0
  /\ last = NoCall
  /\ issued = <<>>
  /\ inflight = <<>>
  /\ retry = NoRetry

LoadCall ==
  /\ steps < 1
  /\ last' = [op |-> "getCurrentVersion", before |-> file,
              ret |-> getCurrentVersion(file)]
  /\ steps' = steps + 1
  /\ UNCHANGED <<file, now, issued, inflight, retry>>

NextLoad == LoadCall

SpecLoad == InitLoad /\ [][NextLoad]_vars

Loaded == last.op = "getCurrentVersion"

\* the file is missing or garbled, or one of its releases has no version
CannotBeRead(stored) ==
  \/ Has(stored, "unreadable")
  \/ /\ Has(stored, "releases")
     /\ \E key \in MapKeys(stored.releases) :
           ~Has(MapGet(stored.releases, key), "version")

\* C12: getCurrentVersion never raises: for a file that is absent, does not
\* parse or fails in migration it returns the default document (version
\* 0.01.012.000, numbers 0, 1, 12, 0, one changelog entry under
\* 0.01.012.000, no releases), and otherwise the migrated document.
C12_LoadNeverRaises ==
  Loaded =>
    /\ ~Has(last.ret, "raised")
    /\ CannotBeRead(last.before) =>
         /\ last.ret.version = formatVersion(0, 1, 12, 0)
         /\ Numbers(last.ret) = <<0, 1, 12, 0>>
         /\ Len(last.ret.changelog) = 1
         /\ MapKeys(last.ret.changelog) = {formatVersion(0, 1, 12, 0)}
         /\ last.ret.releases = <<>>
    /\ ~CannotBeRead(last.before) =>
         last.ret = migrateVersionFormat(last.before)

C12_Witness ==
  /\ Loaded
  /\ last.before = BrokenDocument
  /\ last.ret.version = formatVersion(0, 1, 12, 0)
  /\ last.ret.releases = <<>>

(***************************************************************************)
(* SpecWrite: updateVersion when fs.writeFileSync can fail.  writeFileSync *)
(* opens the file with flag 'w' (create or truncate) and then writes the   *)
(* text; it throws when the open fails, which leaves the file as it was,   *)
(* and when a write fails after the open, which leaves the truncated file  *)
(* with at most a proper prefix of the text: content that does not parse.  *)
(* updateVersion has no try around the write, so the exception leaves the  *)
(* call.                                                                   *)
(***************************************************************************)
writeOutcomes == {"written", "refused", "truncated"}

\* the file after fs.writeFileSync(VERSION_FILE_PATH, data)
writeFileSync(stored, data, outcome) ==
  CASE outcome = "written" -> data
    [] outcome = "refused" -> stored
    [] outcome = "truncated" -> Garbled

\* what the caller of updateVersion gets: the return in line 324 is reached
\* only when writeFileSync returned
updateVersionResult(newVersion, outcome) ==
  IF outcome = "written" THEN newVersion ELSE Raised

UpdateVersionWriteCall(limit, calls, dts) ==
  /\ steps < limit
  /\ \E call \in calls, dt \in dts, outcome \in writeOutcomes :
       LET t == now + dt
           cur == getCurrentVersion(file)
           finalVersion == updateVersion(cur, call, t)
       IN  /\ file' = writeFileSync(file, finalVersion, outcome)
           /\ now' = t
           /\ last' = [op |-> "updateVersion", call |-> call, t |-> t,
                       before |-> file, cur |-> cur, wrote |-> outcome,
                       ret |-> updateVersionResult(finalVersion, outcome)]
           /\ issued' = IF outcome = "written"
                        THEN Append(issued, finalVersion.version)
                        ELSE issued
  /\ steps' = steps + 1
  /\ UNCHANGED <<inflight, retry>>

InitWrite ==
  /\ file \in InitialFiles
  /\ now = StartTime
  /\ steps = 0
  /\ last = NoCall
  /\ issued = <<>>
  /\ inflight = <<>>
  /\ retry = NoRetry

UpdateVersionWriteStep ==
  UpdateVersionWriteCall(MaxOps, CallsOf(VersionTypes, {EntryOne}, {InfoPlain}), {1})

NextWrite == UpdateVersionWriteStep

SpecWrite == InitWrite /\ [][NextWrite]_vars

WriteFailed ==
  /\ last.op = "updateVersion"
  /\ Has(last, "wrote")
  /\ last.wrote # "written"

\* C13 as stated: when the write of the document fails during updateVersion,
\* the call ends with an error instead of a document and the persisted
\* document is the same as before the call.  Violated when the write fails
\* after the file was opened: the call ends with the error, but the file is
\* left truncated and a later load gives the default document, not the one
\* from before the call.
C13_AsStated ==
  WriteFailed =>
    /\ Has(last.ret, "raised")
    /\ file = last.before
    /\ getCurrentVersion(file) = last.cur

(***************************************************************************)
(* SpecRace: updateVersion called from two processes.  The call touches    *)
(* version.json twice, reading it in getCurrentVersion (line 251) and      *)
(* writing it in line 319; nothing holds the file in between, so another   *)
(* process can read or write it there.  A call is therefore two steps:     *)
(* RaceLoad, and RaceWrite with the rest of the call.                      *)
(***************************************************************************)
Procs == {1, 2}

\* the steps (loads and writes) of a behaviour
MaxRaceSteps == 4

RaceEntry(p) == <<"b", "y", " ">> \o NumToString(p)

RaceTitle(p) == <<"T", "i", "t", "l", "e", " ">> \o NumToString(p)

RaceInfo(p) ==
  [title |-> RaceTitle(p), summary |-> SummaryOne, changes |-> <<ChangeA>>]

RaceCalls(p) == CallsOf(VersionTypes, {RaceEntry(p)}, {RaceInfo(p)})

\* a slip: the document is read again just before it is written
writeBasisReread(loaded, stored) == getCurrentVersion(stored)

\* the document the call changes and writes: the one it loaded at its
\* start, whatever the file holds by now
writeBasis(loaded, stored) == loaded

\* line 251 of the call of process p; seen is the number of writes the
\* file had received when it was read
RaceLoad(p) ==
  /\ steps < MaxRaceSteps
  /\ p \notin DOMAIN inflight
  /\ \E call \in RaceCalls(p) :
       inflight' = (p :> [call |-> call, cur |-> getCurrentVersion(file),
                          seen |-> Len(issued)]) @@ inflight
  /\ steps' = steps + 1
  /\ UNCHANGED <<file, now, last, issued, retry>>

\* lines 252 to 324 of the call of process p
RaceWrite(p) ==
  /\ steps < MaxRaceSteps
  /\ p \in DOMAIN inflight
  /\ LET mine == inflight[p]
         t == now + 1
         cur == writeBasis(mine.cur, file)
         ret == updateVersion(cur, mine.call, t)
         call == [op |-> "updateVersion", call |-> mine.call, t |-> t,
                  before |-> file, cur |-> mine.cur, ret |-> ret,
                  by |-> p, seen |-> mine.seen]
     IN  /\ file' = ret
         /\ now' = t
         /\ last' = IF last.op = "updateVersion"
                    THEN call @@
                         [prev |-> [call |-> last.call, cur |-> last.cur,
                                    ret |-> last.ret, by |-> last.by,
                                    seen |-> last.seen]]
                    ELSE call
         /\ issued' = Append(issued, ret.version)
  /\ inflight' = [q \in DOMAIN inflight \ {p} |-> inflight[q]]
  /\ steps' = steps + 1
  /\ UNCHANGED retry

InitRace ==
  /\ file \in InitialFiles
  /\ now = StartTime
  /\ steps = 0
  /\ last = NoCall
  /\ issued = <<>>
  /\ inflight = <<>>
  /\ retry = NoRetry

RaceLoadStep == \E p \in Procs : RaceLoad(p)

RaceWriteStep == \E p \in Procs : RaceWrite(p)

NextRace ==
  \/ RaceLoadStep
  \/ RaceWriteStep

SpecRace == InitRace /\ [][NextRace]_vars

\* the latest two writes are of calls that read the same content of the
\* file: both had loaded before either wrote
Raced ==
  /\ last.op = "updateVersion"
  /\ Has(last, "prev")
  /\ last.seen = last.prev.seen

KeysWithEntry(doc, entry) ==
  {doc.changelog[i].k : i \in {j \in 1..Len(doc.changelog) : doc.changelog[j].v = entry}}

KeysWithTitle(doc, title) ==
  {ReleasesOf(doc)[i].k :
     i \in {j \in 1..Len(ReleasesOf(doc)) : ReleasesOf(doc)[j].v.title = title}}

\* C14: when two updateVersion calls both load the same document before
\* either writes, the document persisted after both writes is exactly the
\* later writer's document, computed from the document both loaded: its
\* numbers are one increment from that document, and it holds no changelog
\* entry and no release of the earlier writer beyond those the loaded
\* document already held.
C14_LaterWriterWins ==
  Raced =>
    /\ last.by # last.prev.by
    /\ last.cur = last.prev.cur
    /\ file = last.ret
    /\ last.ret = updateVersion(last.cur, last.call, last.t)
    /\ Numbers(file) = Numbers(incrementNumbers(last.cur, last.call.type))
    /\ KeysWithEntry(file, last.prev.call.changelogEntry)
         = KeysWithEntry(last.cur, last.prev.call.changelogEntry)
    /\ KeysWithTitle(file, RaceTitle(last.prev.by))
         = KeysWithTitle(last.cur, RaceTitle(last.prev.by))
    /\ file.changelog # last.prev.ret.changelog

\* both calls carry a release and bump different components: the earlier
\* writer's version, entry and release are gone from the file
C14_Witness ==
  /\ Raced
  /\ Has(last.call, "releaseInfo")
  /\ Has(last.prev.call, "releaseInfo")
  /\ last.call.type = "build"
  /\ last.prev.call.type = "minor"
  /\ ~MapHas(file.changelog, last.prev.ret.version)
  /\ ~MapHas(file.releases, last.prev.ret.version)
  /\ MapHas(file.releases, file.version)

(***************************************************************************)
(* Under Spec: the document updateVersion returns against the one a load   *)
(* right after it gives.  The returned object is the written one:          *)
(* migrateVersionFormat changes its argument in place and returns it, so   *)
(* newVersion in line 324 is finalVersion of line 318.  The load parses    *)
(* the written text and migrates it again.                                 *)
(***************************************************************************)
\* C15: a getCurrentVersion call made right after updateVersion returned D
\* returns a document equal to D in version, numeric fields, changelog and
\* releases.
C15_ReturnedIsPersisted ==
  Updated =>
    LET again == getCurrentVersion(file)
    IN  /\ again.version = last.ret.version
        /\ Numbers(again) = Numbers(last.ret)
        /\ again.changelog = last.ret.changelog
        /\ Has(again, "releases") = Has(last.ret, "releases")
        /\ ReleasesOf(again) = ReleasesOf(last.ret)

\* the call migrated a document in the old format and recorded a release
C15_Witness ==
  /\ Updated
  /\ last.before = LegacyDocument
  /\ Has(last.call, "releaseInfo")
  /\ Len(last.ret.releases) = 2
  /\ getCurrentVersion(file) = last.ret

(***************************************************************************)
(* parseVersion.  A JavaScript number is Number(n) for an integer n, or    *)
(* NaN.                                                                    *)
(***************************************************************************)
Number(n) == [num |-> n]

NaN == [nan |-> TRUE]

WhiteSpace == {" "}

HexLetters ==
  ("a" :> 10) @@ ("b" :> 11) @@ ("c" :> 12) @@ ("d" :> 13) @@ ("e" :> 14)
  @@ ("f" :> 15) @@ ("A" :> 10) @@ ("B" :> 11) @@ ("C" :> 12) @@ ("D" :> 13)
  @@ ("E" :> 14) @@ ("F" :> 15)

\* the value of character c as a digit of the radix, -1 when it is none
DigitValue(c, radix) ==
  IF \E d \in 1..10 : DigitChar[d] = c
  THEN (CHOOSE d \in 1..10 : DigitChar[d] = c) - 1
  ELSE IF radix = 16 /\ c \in DOMAIN HexLetters THEN HexLetters[c]
  ELSE -1

\* the characters of s from position i on
From(s, i) == SubSeq(s, i, Len(s))

RECURSIVE StripLeft(_)
StripLeft(s) ==
  IF Len(s) > 0 /\ s[1] \in WhiteSpace THEN StripLeft(Tail(s)) ELSE s

\* the value of the longest prefix of s made of digits of the radix, after
\* acc; seen tells whether a digit has been read
RECURSIVE DigitsValue(_, _, _, _)
DigitsValue(s, radix, acc, seen) ==
  IF Len(s) > 0 /\ DigitValue(s[1], radix) >= 0
  THEN DigitsValue(Tail(s), radix, acc * radix + DigitValue(s[1], radix), TRUE)
  ELSE [value |-> acc, seen |-> seen]

\* parseInt(string) without a radix: leading white space is dropped, then an
\* optional sign, then 0x or 0X selects radix 16, then the longest prefix
\* of digits is read; NaN when there is no digit
parseInt(string) ==
  LET trimmed == StripLeft(string)
      signed == Len(trimmed) > 0 /\ trimmed[1] \in {"+", "-"}
      sign == IF Len(trimmed) > 0 /\ trimmed[1] = "-" THEN -1 ELSE 1
      body == IF signed THEN Tail(trimmed) ELSE trimmed
      hex == Len(body) >= 2 /\ body[1] = "0" /\ body[2] \in {"x", "X"}
      read == IF hex THEN DigitsValue(From(body, 3), 16, 0, FALSE)
              ELSE DigitsValue(body, 10, 0, FALSE)
  IN  IF read.seen THEN Number(sign * read.value) ELSE NaN

\* parts[i] || '0': a missing segment and an empty one are replaced by '0'
partOrZero(parts, i) ==
  IF i <= Len(parts) /\ parts[i] # <<>> THEN parts[i] ELSE <<"0">>

\* parseVersion(version)
parseVersion(version) ==
  LET parts == split(version)
  IN  [major |-> parseInt(partOrZero(parts, 1)),
       minor |-> parseInt(partOrZero(parts, 2)),
       update |-> parseInt(partOrZero(parts, 3)),
       build |-> parseInt(partOrZero(parts, 4))]

(***************************************************************************)
(* SpecFormat: formatVersion on components below, at and above the width   *)
(* of the zero padding, with and without build, and parseVersion on the    *)
(* text it gives.                                                          *)
(***************************************************************************)
WideComponents == {0, 7, 10, 99, 100, 999, 1000, 12345}

FormatInputs ==
  [major : WideComponents, minor : WideComponents, update : WideComponents]
    \cup [major : WideComponents, minor : WideComponents,
          update : WideComponents, build : WideComponents]

\* formatVersion(major, minor, update, build?) with the arguments of input
formatVersionOf(input) ==
  IF Has(input, "build")
  THEN formatVersion(input.major, input.minor, input.update, input.build)
  ELSE formatVersion3(input.major, input.minor, input.update)

InitFormat ==
  /\ file \in FormatInputs
  /\ now = 0
  /\ steps = 0
  /\ last = NoCall
  /\ issued = <<>>
  /\ inflight = <<>>
  /\ retry = NoRetry

ApplyFormatParse ==
  /\ steps < 1
  /\ last' = [op |-> "parseVersion", input |-> file,
              version |-> formatVersionOf(file),
              ret |-> parseVersion(formatVersionOf(file))]
  /\ steps' = steps + 1
  /\ UNCHANGED <<file, now, issued, inflight, retry>>

NextFormat == ApplyFormatParse

SpecFormat == InitFormat /\ [][NextFormat]_vars

Parsed == last.op = "parseVersion"

\* C16: parseVersion inverts formatVersion: the four components come back
\* from the 4-part text, and the three components with build 0 from the
\* 3-part text, also for values wider than the zero padding.
C16_ParseInvertsFormat ==
  Parsed =>
    /\ last.ret.major = Number(last.input.major)
    /\ last.ret.minor = Number(last.input.minor)
    /\ last.ret.update = Number(last.input.update)
    /\ last.ret.build
         = Number(IF Has(last.input, "build") THEN last.input.build ELSE 0)

\* every component is wider than its padding
C16_Witness ==
  /\ Parsed
  /\ last.input = [major |-> 10, minor |-> 100, update |-> 1000, build |-> 12345]
  /\ Len(last.version) = 2 + 1 + 3 + 1 + 4 + 1 + 5
  /\ last.ret.build = Number(12345)

(***************************************************************************)
(* SpecParse: parseVersion on every text of at most MaxText characters     *)
(* over digits, the dot, a letter and the minus sign.                      *)
(***************************************************************************)
MaxText == 5

TextChars == {"0", "1", ".", "x", "-"}

Texts == UNION {[1..n -> TextChars] : n \in 0..MaxText}

InitParse ==
  /\ file \in Texts
  /\ now = 0
  /\ steps = 0
  /\ last = NoCall
  /\ issued = <<>>
  /\ inflight = <<>>
  /\ retry = NoRetry

ApplyParse ==
  /\ steps < 1
  /\ last' = [op |-> "parseVersion", version |-> file, ret |-> parseVersion(file)]
  /\ steps' = steps + 1
  /\ UNCHANGED <<file, now, issued, inflight, retry>>

NextParse == ApplyParse

SpecParse == InitParse /\ [][NextParse]_vars

\* the segment is a decimal numeral
Numeric(segment) ==
  /\ Len(segment) > 0
  /\ \A i \in 1..Len(segment) : DigitValue(segment[i], 10) >= 0

Missing(parts, i) == i > Len(parts) \/ parts[i] = <<>>

\* C17 as stated: for every input string parseVersion returns four integer
\* components, 0 for each missing segment and for each non-numeric one.
\* Violated by a segment without a leading digit, as in 1.x: parseInt
\* gives NaN for it, which is not an integer; a segment with leading
\* digits, as in 1x, gives those digits, not 0.
C17_AsStated ==
  Parsed =>
    LET parts == split(last.version)
        got == <<last.ret.major, last.ret.minor, last.ret.update, last.ret.build>>
    IN  \A i \in 1..4 :
           /\ Has(got[i], "num")
           /\ Missing(parts, i) \/ ~Numeric(parts[i]) => got[i] = Number(0)

(***************************************************************************)
(* SpecScore: calculateImpactScore on releases of every type and of a type *)
(* that is none of the four, with texts that hold no keyword, one, some    *)
(* in capitals and most of them, with changes and technical absent, empty  *)
(* and filled; and on the releases that come from them by appending an     *)
(* entry to changes or to technical.                                       *)
(***************************************************************************)
TitleOAuth ==
  <<"A", "d", "d", " ", "O", "A", "u", "t", "h">>

TitleRapid ==
  <<"R", "a", "p", "i", "d">>

SummarySecurity ==
  <<"I", "m", "p", "r", "o", "v", "e", " ", "s", "e", "c", "u", "r", "i",
    "t", "y">>

ChangeLowerA ==
  <<"a">>

ChangeLowerB ==
  <<"b">>

\* a keyword in two halves: the entries are joined with a space between
ChangeSecu ==
  <<"s", "e", "c", "u">>

ChangeRity ==
  <<"r", "i", "t", "y">>

\* the release of the spec's worked example
ExampleRelease ==
  [type |-> "feature", title |-> TitleOAuth, summary |-> SummarySecurity,
   changes |-> <<ChangeLowerA, ChangeLowerB>>, technical |-> <<TechOne>>]

ReleaseTypes == {"major", "feature", "update", "fix", "other"}

ScoreInputs ==
  LET plain == [type : ReleaseTypes,
                title : {TitleOAuth, TitleRapid, TitleHot},
                summary : {SummarySecurity, SummaryOne, SummaryHot},
                changes : {<<>>, <<ChangeLowerA, ChangeLowerB>>,
                           <<ChangeSecu, ChangeRity>>}]
  IN  plain \cup {SetField(release, "technical", technical) :
                    release \in plain, technical \in {<<>>, <<TechOne>>}}

\* the appended entries of a behaviour
MaxAppends == 2

InitScore ==
  /\ file \in ScoreInputs
  /\ now = 0
  /\ steps = 0
  /\ last = NoCall
  /\ issued = <<>>
  /\ inflight = <<>>
  /\ retry = NoRetry

ScoreRelease ==
  /\ steps < MaxAppends + 1
  /\ last' = [op |-> "calculateImpactScore", release |-> file,
              ret |-> calculateImpactScore(file)]
  /\ steps' = steps + 1
  /\ UNCHANGED <<file, now, issued, inflight, retry>>

\* the same release with one more entry in changes, scored before and after
AppendChange ==
  /\ steps < MaxAppends
  /\ \E change \in {ChangeHot} :
       LET longer == [file EXCEPT !.changes = Append(@, change)]
       IN  /\ file' = longer
           /\ last' = [op |-> "appendChange", before |-> file,
                       scoreBefore |-> calculateImpactScore(file),
                       ret |-> calculateImpactScore(longer)]
  /\ steps' = steps + 1
  /\ UNCHANGED <<now, issued, inflight, retry>>

\* the same release with one more entry in technical, which becomes a list
\* of one entry when it was absent
AppendTechnical ==
  /\ steps < MaxAppends
  /\ \E tech \in {TechOne} :
       LET longer == SetField(file, "technical",
                              IF Has(file, "technical")
                              THEN Append(file.technical, tech) ELSE <<tech>>)
       IN  /\ file' = longer
           /\ last' = [op |-> "appendTechnical", before |-> file,
                       scoreBefore |-> calculateImpactScore(file),
                       ret |-> calculateImpactScore(longer)]
  /\ steps' = steps + 1
  /\ UNCHANGED <<now, issued, inflight, retry>>

NextScore ==
  \/ ScoreRelease
  \/ AppendChange
  \/ AppendTechnical

SpecScore == InitScore /\ [][NextScore]_vars

Scored == last.op = "calculateImpactScore"

Appended == last.op \in {"appendChange", "appendTechnical"}

\* keyword occurs in text: some stretch of text spells it
Occurs(keyword, text) ==
  \E start \in 0..(Len(text) - Len(keyword)) :
     \A j \in 1..Len(keyword) : text[start + j] = keyword[j]

TechnicalOf(release) == IF Has(release, "technical") THEN release.technical ELSE <<>>

ScoredText(release) ==
  toLowerCase(release.title \o <<" ">> \o release.summary \o <<" ">>
              \o join(release.changes, <<" ">>) \o <<" ">>
              \o join(TechnicalOf(release), <<" ">>))

KeywordsIn(release) ==
  {keyword \in Range(highImpactKeywords) : Occurs(keyword, ScoredText(release))}

BaseOf(type) ==
  IF type = "major" THEN 100
  ELSE IF type = "feature" THEN 70
  ELSE IF type = "update" THEN 40
  ELSE IF type = "fix" THEN 20
  ELSE 0

Uncapped(release) ==
  BaseOf(release.type) + 5 * Len(release.changes)
    + 3 * Len(TechnicalOf(release)) + 10 * Cardinality(KeywordsIn(release))

\* C18: calculateImpactScore(release) is min(200, base(type) + 5*|changes|
\* + 3*|technical| + 10*k) with base major=100, feature=70, update=40,
\* fix=20, other=0, |technical| 0 when absent, and k the number of the 14
\* keywords that occur in the lowercased text of title, summary, changes
\* and technical; the release of the example scores 93.
C18_ScoreFormula ==
  /\ Cardinality(Range(highImpactKeywords)) = 14
  /\ Scored =>
       /\ last.ret = IF Uncapped(last.release) < 200
                     THEN Uncapped(last.release) ELSE 200
       /\ last.release = ExampleRelease => last.ret = 93

\* the example has been scored
C18_Witness ==
  /\ Scored
  /\ last.release = ExampleRelease
  /\ KeywordsIn(last.release) = {highImpactKeywords[1]}
  /\ last.ret = 93

\* C19: appending an entry to changes or to technical, all other fields
\* fixed, never lowers calculateImpactScore, and the score of every release
\* lies in 0..200, with empty changes and absent technical too.
C19_MonotoneAndCapped ==
  /\ calculateImpactScore(file) \in 0..200
  /\ Scored => last.ret \in 0..200
  /\ Appended =>
       /\ last.ret >= last.scoreBefore
       /\ last.ret \in 0..200
       /\ last.scoreBefore \in 0..200
       /\ last.ret = calculateImpactScore(file)
       /\ last.scoreBefore = calculateImpactScore(last.before)

\* an appended entry takes the score from below the cap to the cap, the
\* uncapped sum being above it
C19_Witness ==
  /\ Appended
  /\ last.scoreBefore < 200
  /\ last.ret = 200
  /\ rawImpactScore(file) > 200

(***************************************************************************)
(* SpecLevel: getImpactLevel on every integer from below 0 to above the    *)
(* cap of the score.                                                       *)
(***************************************************************************)
\* how far below 0 and above 200 the scores go
MaxBeyond == 10

Scores == (0 - MaxBeyond)..(200 + MaxBeyond)

Critical ==
  [level |-> "Critical", color |-> "text-red-600 dark:text-red-400",
   description |-> "Major system changes with significant impact"]

High ==
  [level |-> "High", color |-> "text-orange-600 dark:text-orange-400",
   description |-> "Important updates affecting core functionality"]

Medium ==
  [level |-> "Medium", color |-> "text-yellow-600 dark:text-yellow-400",
   description |-> "Notable improvements and enhancements"]

Low ==
  [level |-> "Low", color |-> "text-blue-600 dark:text-blue-400",
   description |-> "Minor fixes and small improvements"]

Minimal ==
  [level |-> "Minimal", color |-> "text-gray-600 dark:text-gray-400",
   description |-> "Small maintenance updates"]

\* a slip: > for >=, the boundary values fall to the lower level
getImpactLevelOpen(score) ==
  IF score > 150 THEN Critical
  ELSE IF score > 100 THEN High
  ELSE IF score > 60 THEN Medium
  ELSE IF score > 30 THEN Low
  ELSE Minimal

getImpactLevel(score) ==
  IF score >= 150 THEN Critical
  ELSE IF score >= 100 THEN High
  ELSE IF score >= 60 THEN Medium
  ELSE IF score >= 30 THEN Low
  ELSE Minimal

InitLevel ==
  /\ file \in Scores
  /\ now = 0
  /\ steps = 0
  /\ last = NoCall
  /\ issued = <<>>
  /\ inflight = <<>>
  /\ retry = NoRetry

ApplyLevel ==
  /\ steps < 1
  /\ last' = [op |-> "getImpactLevel", score |-> file, ret |-> getImpactLevel(file)]
  /\ steps' = steps + 1
  /\ UNCHANGED <<file, now, issued, inflight, retry>>

NextLevel == ApplyLevel

SpecLevel == InitLevel /\ [][NextLevel]_vars

Levelled == last.op = "getImpactLevel"

LevelNames == {"Critical", "High", "Medium", "Low", "Minimal"}

\* C20: getImpactLevel gives every integer score exactly one level, with
\* closed lower bounds: 150 and above Critical, 100..149 High, 60..99
\* Medium, 30..59 Low, below 30 Minimal; 150, 100, 60 and 30 belong to the
\* higher level.
C20_LevelRanges ==
  Levelled =>
    /\ last.ret.level \in LevelNames
    /\ last.ret.level = "Critical" <=> last.score >= 150
    /\ last.ret.level = "High" <=> last.score \in 100..149
    /\ last.ret.level = "Medium" <=> last.score \in 60..99
    /\ last.ret.level = "Low" <=> last.score \in 30..59
    /\ last.ret.level = "Minimal" <=> last.score < 30
    /\ last.score = 150 => last.ret.level = "Critical"
    /\ last.score = 100 => last.ret.level = "High"
    /\ last.score = 60 => last.ret.level = "Medium"
    /\ last.score = 30 => last.ret.level = "Low"

\* the boundary between Medium and High has been mapped
C20_Witness ==
  /\ Levelled
  /\ last.score = 100
  /\ last.ret = High

(***************************************************************************)
(* SpecBuild: the increment-build script and autoIncrementBuild, on the    *)
(* initial documents, with addRelease calls in between.                    *)
(***************************************************************************)
DevelopmentBuild ==
  <<"D", "e", "v", "e", "l", "o", "p", "m", "e", "n", "t", " ", "b", "u",
    "i", "l", "d">>

FixedTypo ==
  <<"f", "i", "x", "e", "d", " ", "t", "y", "p", "o">>

BuildUpdatePrefix ==
  <<"B", "u", "i", "l", "d", " ", "U", "p", "d", "a", "t", "e", " ", "-",
    " ">>

AutomatedPrefix ==
  <<"A", "u", "t", "o", "m", "a", "t", "e", "d", " ", "b", "u", "i", "l",
    "d", " ", "i", "n", "c", "r", "e", "m", "e", "n", "t", ":", " ">>

BuildTechnical ==
  <<"B", "u", "i", "l", "d", " ", "n", "u", "m", "b", "e", "r", " ", "a",
    "u", "t", "o", "-", "i", "n", "c", "r", "e", "m", "e", "n", "t", "e",
    "d", " ", "d", "u", "r", "i", "n", "g", " ", "d", "e", "v", "e", "l",
    "o", "p", "m", "e", "n", "t">>

\* process.argv[2] || 'Development build'; a missing argument is <<>>
buildDescriptionOf(argument) ==
  IF argument = <<>> THEN DevelopmentBuild ELSE argument

\* a slip: the build release is folded into the release before it
autoIncrementBuildConsolidating(buildDescription) ==
  [type |-> "build", changelogEntry |-> buildDescription,
   releaseInfo |-> [title |-> BuildUpdatePrefix \o buildDescription,
                    summary |-> AutomatedPrefix \o buildDescription,
                    changes |-> <<buildDescription>>,
                    technical |-> <<BuildTechnical>>,
                    consolidateWithPrevious |-> TRUE]]

\* autoIncrementBuild(buildDescription): the updateVersion call it makes
autoIncrementBuild(buildDescription) ==
  [type |-> "build", changelogEntry |-> buildDescription,
   releaseInfo |-> [title |-> BuildUpdatePrefix \o buildDescription,
                    summary |-> AutomatedPrefix \o buildDescription,
                    changes |-> <<buildDescription>>,
                    technical |-> <<BuildTechnical>>]]

\* the script run with one of the arguments
AutoIncrementBuildCall(limit, arguments) ==
  /\ steps < limit
  /\ \E argument \in arguments :
       LET description == buildDescriptionOf(argument)
           t == now + 1
           cur == getCurrentVersion(file)
           ret == updateVersion(cur, autoIncrementBuild(description), t)
       IN  /\ file' = ret
           /\ now' = t
           /\ last' = [op |-> "autoIncrementBuild", description |-> description,
                       t |-> t, before |-> file, cur |-> cur, ret |-> ret]
           /\ issued' = Append(issued, ret.version)
  /\ steps' = steps + 1
  /\ UNCHANGED <<inflight, retry>>

InitBuild ==
  /\ file \in InitialFiles
  /\ now = StartTime
  /\ steps = 0
  /\ last = NoCall
  /\ issued = <<>>
  /\ inflight = <<>>
  /\ retry = NoRetry

\* the calls of a behaviour of SpecBuild
MaxBuilds == 3

AutoIncrementBuildStep == AutoIncrementBuildCall(MaxBuilds, {<<>>, FixedTypo})

AddReleaseAheadStep == AddReleaseCall(MaxBuilds, {ReleaseAhead})

NextBuild ==
  \/ AutoIncrementBuildStep
  \/ AddReleaseAheadStep

SpecBuild == InitBuild /\ [][NextBuild]_vars

Built == last.op = "autoIncrementBuild"

\* what C21 says of the numbers, the changelog and the release at the new key
BuildRecorded ==
  /\ file = last.ret
  /\ file.build = last.cur.build + 1
  /\ file.major = last.cur.major
  /\ file.minor = last.cur.minor
  /\ file.update = last.cur.update
  /\ file.version = formatVersion(file.major, file.minor, file.update, file.build)
  /\ MapHas(file.changelog, file.version)
  /\ MapGet(file.changelog, file.version) = last.description
  /\ MapHas(file.releases, file.version)
  /\ LET release == MapGet(file.releases, file.version)
     IN  /\ release.type = "fix"
         /\ release.title = BuildUpdatePrefix \o last.description
         /\ release.changes = <<last.description>>
         /\ release.version = file.version

\* every release the loaded document held under another key is still there,
\* unchanged
EarlierReleasesKept ==
  \A i \in 1..Len(ReleasesOf(last.cur)) :
     LET entry == ReleasesOf(last.cur)[i]
     IN  entry.k # file.version =>
           /\ MapHas(file.releases, entry.k)
           /\ MapGet(file.releases, entry.k) = entry.v

\* C21 as stated: autoIncrementBuild raises build by 1 and nothing else,
\* sets changelog[new version] = description, records at the new version
\* key a release of type 'fix' with title 'Build Update - '+description
\* and changes [description], and each call adds one release.  Violated
\* when addRelease had stored a release under the version the call moves
\* to: the call replaces it and the number of releases stays the same.
C21_AsStated ==
  Built =>
    /\ BuildRecorded
    /\ Len(file.releases) = Len(ReleasesOf(last.cur)) + 1

\* C21 amended: as stated, where the call adds one release unless a release
\* was already stored under the new version, which it replaces; no other
\* release is changed or removed (there is no consolidation).
C21_BuildIncrement ==
  Built =>
    /\ BuildRecorded
    /\ EarlierReleasesKept
    /\ Len(file.releases) =
         IF MapHas(ReleasesOf(last.cur), file.version)
         THEN Len(ReleasesOf(last.cur))
         ELSE Len(ReleasesOf(last.cur)) + 1

\* two script runs with the same description: the latest release carries
\* the title of the second call and is kept beside the new one
C21_Witness ==
  /\ Built
  /\ steps = 2
  /\ Len(ReleasesOf(last.cur)) > 0
  /\ MapGet(last.cur.releases, latestReleaseKey(last.cur.releases)).title
       = BuildUpdatePrefix \o last.description
  /\ ~MapHas(last.cur.releases, file.version)
  /\ Len(file.releases) = Len(last.cur.releases) + 1

(***************************************************************************)
(* Under Spec: what addChangelogEntry and addRelease change.  The document *)
(* the call starts from is the loaded one, last.cur: what getCurrentVersion *)
(* gives for the file, migrated, or the default.                           *)
(***************************************************************************)
EntryAdded == last.op = "addChangelogEntry"

ReleaseAdded == last.op = "addRelease"

SameNumbers(a, b) ==
  /\ a.version = b.version
  /\ Numbers(a) = Numbers(b)

\* map m is map before with key set to val: the other keys keep their
\* values and no key is lost or gained
SetsOnly(before, m, key, val) ==
  /\ MapKeys(m) = MapKeys(before) \cup {key}
  /\ MapGet(m, key) = val
  /\ \A other \in MapKeys(before) \ {key} : MapGet(m, other) = MapGet(before, other)
  /\ NoRepeat([i \in 1..Len(m) |-> m[i].k])

\* C22: addChangelogEntry(entry) sets changelog[current version] = entry in
\* the persisted document and leaves version, major, minor, update, build,
\* every other changelog key and all releases as they were.
C22_ChangelogEntryOnly ==
  EntryAdded =>
    /\ SameNumbers(file, last.cur)
    /\ SetsOnly(last.cur.changelog, file.changelog, last.cur.version, last.entry)
    /\ Has(file, "releases") = Has(last.cur, "releases")
    /\ ReleasesOf(file) = ReleasesOf(last.cur)

\* the entry replaces another one, beside an older entry and a release
C22_Witness ==
  /\ EntryAdded
  /\ MapHas(last.cur.changelog, last.cur.version)
  /\ MapGet(last.cur.changelog, last.cur.version) # last.entry
  /\ Len(file.changelog) >= 2
  /\ Len(ReleasesOf(file)) >= 1
  /\ MapGet(file.changelog, file.version) = last.entry

\* C23: addRelease(release) stores the release under key release.version
\* with every field exactly as given, the impactScore of the caller
\* included, and leaves version, major, minor, update, build, the changelog
\* and every release under another key as they were.
C23_ReleaseAsGiven ==
  ReleaseAdded =>
    /\ SameNumbers(file, last.cur)
    /\ file.changelog = last.cur.changelog
    /\ Has(file, "releases")
    /\ SetsOnly(ReleasesOf(last.cur), file.releases, last.release.version, last.release)

\* a release with a score of the caller that is not the computed one,
\* stored beside another release
C23_Witness ==
  /\ ReleaseAdded
  /\ Has(last.release, "impactScore")
  /\ last.release.impactScore # calculateImpactScore(last.release)
  /\ MapGet(file.releases, last.release.version).impactScore = last.release.impactScore
  /\ Len(file.releases) >= 2

(***************************************************************************)
(* SpecMerge: consolidating updateVersion calls on a document whose latest *)
(* release has the title of the call, with lists that repeat entries of    *)
(* the release and entries of their own.                                   *)
(***************************************************************************)
\* the calls of a behaviour of SpecMerge
MaxMerges == 2

TechTwo == <<"t", "2">>

MergeRelease(changes) ==
  rescore([version |-> formatVersion(1, 2, 3, 0), date |-> StartTime - 1,
           title |-> TitleFix, type |-> "feature", summary |-> SummaryOne,
           changes |-> changes])

MergeDocument(release) ==
  [version |-> formatVersion(1, 2, 3, 0),
   major |-> 1, minor |-> 2, update |-> 3, build |-> 0,
   changelog |-> <<[k |-> formatVersion(1, 2, 3, 0), v |-> EntryOne]>>,
   releases |-> <<[k |-> formatVersion(1, 2, 3, 0), v |-> release]>>]

MergeDocuments ==
  {MergeDocument(MergeRelease(changes)) : changes \in {<<>>, <<ChangeA>>}}
    \cup {MergeDocument(rescore(SetField(MergeRelease(<<ChangeA>>), "technical", <<TechOne>>)))}

MergeInfos ==
  LET plain == [title : {TitleFix}, summary : {SummaryTwo},
                changes : {<<>>, <<ChangeA>>, <<ChangeB, ChangeA>>, <<ChangeB, ChangeB>>},
                consolidateWithPrevious : {TRUE}]
  IN  plain \cup {SetField(info, "technical", technical) :
                    info \in plain,
                    technical \in {<<TechOne>>, <<TechOne, TechTwo>>, <<TechTwo, TechTwo>>}}

InitMerge ==
  /\ file \in MergeDocuments
  /\ now = StartTime
  /\ steps = 0
  /\ last = NoCall
  /\ issued = <<>>
  /\ inflight = <<>>
  /\ retry = NoRetry

MergeStep ==
  UpdateVersionCall(MaxMerges, CallsOf({"build", "update"}, {EntryOne}, MergeInfos), {1})

NextMerge == MergeStep

SpecMerge == InitMerge /\ [][NextMerge]_vars

\* the entries of list in order, each at its first place only
RECURSIVE FirstOccurrences(_)
FirstOccurrences(list) ==
  IF list = <<>> THEN <<>>
  ELSE LET front == FirstOccurrences(SubSeq(list, 1, Len(list) - 1))
           x == list[Len(list)]
       IN  IF x \in Range(front) THEN front ELSE Append(front, x)

\* old followed by the entries of incoming that old does not hold, each once
SetMerged(old, incoming) ==
  old \o FirstOccurrences(SelectSeq(incoming, LAMBDA x : x \notin Range(old)))

\* the release the consolidation met, and the release it left
MetRelease == MapGet(last.cur.releases, LatestKey(last.cur.releases))

LeftRelease == MapGet(last.ret.releases, last.ret.version)

\* C24 as stated: in a consolidation the changes become the old changes
\* followed, in order, by the entries of releaseInfo.changes that were not
\* present, each appended at most once; the same for technical; technical
\* is unchanged when releaseInfo has none.  Violated when releaseInfo
\* names a new entry twice: it is appended twice.
C24_AsStated ==
  Consolidating =>
    /\ LeftRelease.changes = SetMerged(MetRelease.changes, last.call.releaseInfo.changes)
    /\ IF Has(last.call.releaseInfo, "technical")
       THEN /\ Has(LeftRelease, "technical")
            /\ LeftRelease.technical
                 = SetMerged(TechnicalOf(MetRelease), last.call.releaseInfo.technical)
       ELSE /\ Has(LeftRelease, "technical") = Has(MetRelease, "technical")
            /\ TechnicalOf(LeftRelease) = TechnicalOf(MetRelease)

(***************************************************************************)
(* SpecLatest: updateVersion calls that ask for consolidation, on          *)
(* documents with two releases in either insertion order, the one dated    *)
(* before, after or with the other, either of them with the title of the   *)
(* call.                                                                   *)
(***************************************************************************)
DatedRelease(version, date, title) ==
  rescore([version |-> version, date |-> date, title |-> title,
           type |-> "update", summary |-> SummaryOne, changes |-> <<ChangeA>>])

\* the releases 1.02.002.000 and 1.02.003.000, listed in this or in the
\* other order
TwoReleaseMaps ==
  LET first(d, ti) == [k |-> formatVersion(1, 2, 2, 0),
                       v |-> DatedRelease(formatVersion(1, 2, 2, 0), d, ti)]
      second(d, ti) == [k |-> formatVersion(1, 2, 3, 0),
                        v |-> DatedRelease(formatVersion(1, 2, 3, 0), d, ti)]
      dates == {<<1, 3>>, <<3, 1>>, <<2, 2>>}
      titles == {<<TitleFix, TitleOther>>, <<TitleOther, TitleFix>>}
  IN  {<<first(d[1], ti[1]), second(d[2], ti[2])>> : d \in dates, ti \in titles}
        \cup {<<second(d[2], ti[2]), first(d[1], ti[1])>> : d \in dates, ti \in titles}

TwoReleaseDocuments ==
  {[version |-> formatVersion(1, 2, 3, 0),
    major |-> 1, minor |-> 2, update |-> 3, build |-> 0,
    changelog |-> <<[k |-> formatVersion(1, 2, 3, 0), v |-> EntryOne]>>,
    releases |-> releases] : releases \in TwoReleaseMaps}

InitLatest ==
  /\ file \in TwoReleaseDocuments
  /\ now = StartTime
  /\ steps = 0
  /\ last = NoCall
  /\ issued = <<>>
  /\ inflight = <<>>
  /\ retry = NoRetry

LatestStep ==
  UpdateVersionCall(MaxOps,
    CallsOf({"build", "minor"}, {EntryOne}, {InfoSameTitle, InfoOtherTitle}), {1})

NextLatest == LatestStep

SpecLatest == InitLatest /\ [][NextLatest]_vars

\* the keys of the releases no other release is dated after
GreatestDated(releases) ==
  {releases[i].k : i \in {j \in 1..Len(releases) :
      \A other \in 1..Len(releases) : releases[other].v.date <= releases[j].v.date}}

TitledAs(releases, title) ==
  {releases[i].k : i \in {j \in 1..Len(releases) : releases[j].v.title = title}}

\* every release of the loaded document is in the written one, unchanged,
\* beside one new release under the new version
CreatedBeside ==
  /\ Len(last.ret.releases) = Len(last.cur.releases) + 1
  /\ \A key \in MapKeys(last.cur.releases) :
        /\ MapHas(last.ret.releases, key)
        /\ MapGet(last.ret.releases, key) = MapGet(last.cur.releases, key)
  /\ MapGet(last.ret.releases, last.ret.version).changes = last.call.releaseInfo.changes

\* the release under key has been moved to the new version with its changes
\* merged; the others are unchanged
ConsolidatedFrom(key) ==
  /\ Len(last.ret.releases) = Len(last.cur.releases)
  /\ ~MapHas(last.ret.releases, key)
  /\ \A other \in MapKeys(last.cur.releases) \ {key} :
        /\ MapHas(last.ret.releases, other)
        /\ MapGet(last.ret.releases, other) = MapGet(last.cur.releases, other)
  /\ MapGet(last.ret.releases, last.ret.version).changes
       = mergeUnique(MapGet(last.cur.releases, key).changes, last.call.releaseInfo.changes)

MaxLedgerOps == 3

\* a release for the build after the default version
ReleaseAfterDefault ==
  [version |-> formatVersion(0, 1, 12, 1), date |-> 0, title |-> TitleOther,
   type |-> "fix", summary |-> SummaryOne, changes |-> <<ChangeB>>,
   impactScore |-> 7]

\* a release for the update after the default version, in the old format
ReleaseAfterDefaultLegacy ==
  [version |-> formatVersion3(0, 1, 13), date |-> StartTime, title |-> TitleFix,
   type |-> "update", summary |-> SummaryOne, changes |-> <<ChangeA>>]

InitLedger ==
  /\ file = Unreadable
  /\ now = StartTime
  /\ steps = 0
  /\ last = NoCall
  /\ issued = <<>>
  /\ inflight = <<>>
  /\ retry = NoRetry

LedgerUpdateStep ==
  UpdateVersionCall(MaxLedgerOps,
    CallsOf({"build", "update"}, {EntryOne}, {InfoPlain, InfoSameTitle}), {1})

LedgerEntryStep == AddChangelogEntryCall(MaxLedgerOps, {EntryTwo})

LedgerReleaseStep ==
  AddReleaseCall(MaxLedgerOps, {ReleaseAfterDefault, ReleaseAfterDefaultLegacy})

NextLedger ==
  \/ LedgerUpdateStep
  \/ LedgerEntryStep
  \/ LedgerReleaseStep

SpecLedger == InitLedger /\ [][NextLedger]_vars

KeysAgree(doc) ==
  \A i \in 1..Len(ReleasesOf(doc)) :
     ReleasesOf(doc)[i].v.version = ReleasesOf(doc)[i].k

\* C26: after any sequence of updateVersion, addRelease and
\* addChangelogEntry calls from the default document, every entry of the
\* release map of the persisted document, and of the document a load gives
\* for it, satisfies releases[k].version = k.
C26_KeysAgree ==
  /\ Saved => KeysAgree(file)
  /\ KeysAgree(getCurrentVersion(file))

\* a release given in the old format, migrated by an updateVersion call
\* that consolidated another release
C26_Witness ==
  /\ Consolidating
  /\ steps = 3
  /\ Len(file.releases) = 2
  /\ MapHas(file.releases, formatVersion(0, 1, 13, 0))
  /\ MapHas(file.releases, file.version)
  /\ file.version # formatVersion(0, 1, 13, 0)

(***************************************************************************)
(* Under SpecMerge: what a consolidation leaves of the release it met.     *)
(***************************************************************************)
\* C27: a consolidation leaves the title and the type of the release as
\* they were: the type is not set to the kind of the new increment, and
\* the recomputed impactScore is the score of the merged release with that
\* old type as its base.
C27_TitleAndTypeKept ==
  Consolidating =>
    /\ LeftRelease.title = MetRelease.title
    /\ LeftRelease.type = MetRelease.type
    /\ Has(LeftRelease, "impactScore")
    /\ LeftRelease.impactScore =
         (LET sum == BaseOf(MetRelease.type) + 5 * Len(LeftRelease.changes)
                       + 3 * Len(TechnicalOf(LeftRelease))
                       + 10 * Cardinality(KeywordsIn(LeftRelease))
          IN  IF sum < 200 THEN sum ELSE 200)

\* a 'feature' release consolidated by a build increment that adds a change
C27_Witness ==
  /\ Consolidating
  /\ last.call.type = "build"
  /\ MetRelease.type = "feature"
  /\ releaseType(last.call.type) = "fix"
  /\ LeftRelease.type = "feature"
  /\ Len(LeftRelease.changes) > Len(MetRelease.changes)
  /\ LeftRelease.impactScore > MetRelease.impactScore

(***************************************************************************)
(* SpecRepeat: consecutive updateVersion calls that all ask for            *)
(* consolidation under one title, on documents whose latest-dated release  *)
(* has that title; the clock advances between the calls.                   *)
(***************************************************************************)
\* the calls of a behaviour of SpecRepeat
MaxRepeat == 3

\* older release of another title first, or last, in the map
RepeatOlderFirst ==
  [MergeDocument(MergeRelease(<<ChangeA>>)) EXCEPT !.releases =
     <<[k |-> formatVersion(1, 2, 2, 0),
        v |-> DatedRelease(formatVersion(1, 2, 2, 0), 1, TitleOther)]>> \o @]

RepeatOlderLast ==
  [MergeDocument(MergeRelease(<<ChangeA>>)) EXCEPT !.releases =
     @ \o <<[k |-> formatVersion(1, 2, 2, 0),
             v |-> DatedRelease(formatVersion(1, 2, 2, 0), 1, TitleOther)]>>]

\* after addRelease stored a release for the next build
RepeatWithAhead ==
  addRelease(MergeDocument(MergeRelease(<<ChangeA>>)), ReleaseAhead)

RepeatDocuments ==
  {MergeDocument(MergeRelease(<<ChangeA>>)), RepeatOlderFirst, RepeatOlderLast,
   RepeatWithAhead}

InfoSameTitleAgain ==
  [title |-> TitleFix, summary |-> SummaryOne, changes |-> <<ChangeB>>,
   consolidateWithPrevious |-> TRUE]

RepeatCalls ==
  [type : {"build", "update"}, changelogEntry : {EntryOne},
   releaseInfo : {InfoSameTitle, InfoSameTitleAgain}]

InitRepeat ==
  /\ file \in RepeatDocuments
  /\ now = StartTime
  /\ steps = 0
  /\ last = NoCall
  /\ issued = <<>>
  /\ inflight = <<>>
  /\ retry = NoRetry

RepeatStep == UpdateVersionCall(MaxRepeat, RepeatCalls, {1, 2})

NextRepeat == RepeatStep

SpecRepeat == InitRepeat /\ [][NextRepeat]_vars

\* the release under the current version has the title and is dated after
\* every other release
ConsolidatedIsLatest ==
  /\ MapHas(file.releases, file.version)
  /\ MapGet(file.releases, file.version).title = TitleFix
  /\ MapGet(file.releases, file.version).date = last.t
  /\ GreatestDated(file.releases) = {file.version}
  /\ latestReleaseKey(file.releases) = file.version

InitRecover ==
  /\ file \in {Unreadable, Garbled, BrokenDocument}
  /\ now = StartTime
  /\ steps = 0
  /\ last = NoCall
  /\ issued = <<>>
  /\ inflight = <<>>
  /\ retry = NoRetry

RecoverStep ==
  UpdateVersionCall(MaxOps,
    CallsOf(VersionTypes, {EntryOne}, {InfoPlain, InfoSameTitle}), {1})

NextRecover == RecoverStep

SpecRecover == InitRecover /\ [][NextRecover]_vars

\* the call on record found a file it could not read
Recovering == Updated /\ CannotBeRead(last.before)

ChangelogOf(stored) == IF Has(stored, "changelog") THEN stored.changelog ELSE <<>>

\* C29: when the persisted document cannot be read or parsed at the time
\* of the call, updateVersion succeeds and persists a document built from
\* the default: its version is that of incrementVersion(default, kind),
\* its changelog holds the seed entry and the new entry only, its releases
\* hold the new release or nothing, and no changelog entry and no release
\* of the unreadable document is in it.
C29_RebuiltFromDefault ==
  Recovering =>
    /\ ~Has(last.ret, "raised")
    /\ file = last.ret
    /\ last.cur = DefaultDocument
    /\ file.version = incrementVersion(DefaultDocument, last.call.type).version
    /\ Numbers(file) = Numbers(incrementNumbers(DefaultDocument, last.call.type))
    /\ file.changelog = <<[k |-> DefaultVersion, v |-> SeedEntry],
                          [k |-> file.version, v |-> last.call.changelogEntry]>>
    /\ MapKeys(file.releases) =
         IF Has(last.call, "releaseInfo") THEN {file.version} ELSE {}
    /\ Len(file.releases) <= 1
    /\ MapKeys(ChangelogOf(last.before)) \cap MapKeys(file.changelog) = {}
    /\ MapKeys(ReleasesOf(last.before)) \cap MapKeys(file.releases) = {}

\* the document with a release that has no version: its two changelog
\* entries and two releases are replaced by the seed, the new entry and
\* the new release
C29_Witness ==
  /\ Recovering
  /\ last.before = BrokenDocument
  /\ Len(last.before.changelog) = 2
  /\ Len(last.before.releases) = 2
  /\ Has(last.call, "releaseInfo")
  /\ Len(file.releases) = 1
  /\ Len(file.changelog) = 2

(***************************************************************************)
(* SpecRetry: retryOperation(operation, config).  retry.pc is the place of *)
(* the call: "loop" at the head of the for loop, "sleep" in the wait after *)
(* a failed attempt, "returned" and "raised" at its two ends.  The         *)
(* operation is free to succeed or to fail at each invocation; the result  *)
(* and the error of invocation n are written n.  backoffMultiplier is the  *)
(* fraction num / den.                                                     *)
(***************************************************************************)
\* the greatest maxAttempts of a configuration
MaxAttempts == 3

\* the default of retryOperation, and the configurations of
\* withSettingsRetry and withAuthRetry
DefaultRetryConfig ==
  [maxAttempts |-> 3, delayMs |-> 1000, backoffMultiplier |-> [num |-> 2, den |-> 1]]

SettingsRetryConfig ==
  [maxAttempts |-> 3, delayMs |-> 500, backoffMultiplier |-> [num |-> 3, den |-> 2]]

AuthRetryConfig ==
  [maxAttempts |-> 2, delayMs |-> 1000, backoffMultiplier |-> [num |-> 2, den |-> 1]]

\* those three with every maxAttempts up to the bound, and without delay
RetryConfigs ==
  UNION {{[config EXCEPT !.maxAttempts = n, !.delayMs = ms] :
            n \in 0..MaxAttempts, ms \in {0, config.delayMs, 2000}} :
         config \in {DefaultRetryConfig, SettingsRetryConfig, AuthRetryConfig}}

RECURSIVE Power(_, _)
Power(base, exponent) ==
  IF exponent = 0 THEN 1 ELSE base * Power(base, exponent - 1)

\* a slip: the exponent is the attempt, not the attempt before
retryDelayNext(config, attempt) ==
  (config.delayMs * Power(config.backoffMultiplier.num, attempt))
    \div Power(config.backoffMultiplier.den, attempt)

\* config.delayMs * Math.pow(config.backoffMultiplier, attempt - 1)
retryDelay(config, attempt) ==
  (config.delayMs * Power(config.backoffMultiplier.num, attempt - 1))
    \div Power(config.backoffMultiplier.den, attempt - 1)

InitRetry ==
  /\ file = Unreadable
  /\ now = 0
  /\ steps = 0
  /\ last = NoCall
  /\ issued = <<>>
  /\ inflight = <<>>
  /\ retry \in {[pc |-> "loop", config |-> config, attempt |-> 1, lastError |-> 0,
                 outcomes |-> <<>>, waits |-> <<>>] : config \in RetryConfigs}

\* an invocation of the operation that resolves: return result
OperationSucceeds ==
  /\ retry.pc = "loop"
  /\ retry.attempt <= retry.config.maxAttempts
  /\ retry' = [retry EXCEPT !.outcomes = Append(@, "resolved"), !.pc = "returned"]
                @@ [result |-> Len(retry.outcomes) + 1]
  /\ UNCHANGED <<file, now, steps, last, issued, inflight>>

\* an invocation that rejects: lastError is set; before the last attempt
\* the wait is started, at the last attempt the loop goes on to its end
OperationFails ==
  /\ retry.pc = "loop"
  /\ retry.attempt <= retry.config.maxAttempts
  /\ retry' = IF retry.attempt < retry.config.maxAttempts
              THEN [retry EXCEPT !.outcomes = Append(@, "rejected"),
                                 !.lastError = Len(retry.outcomes) + 1,
                                 !.pc = "sleep"]
              ELSE [retry EXCEPT !.outcomes = Append(@, "rejected"),
                                 !.lastError = Len(retry.outcomes) + 1,
                                 !.attempt = @ + 1]
  /\ UNCHANGED <<file, now, steps, last, issued, inflight>>

\* the timer of the wait fires after delay milliseconds; attempt++
WaitEnds ==
  /\ retry.pc = "sleep"
  /\ LET delay == retryDelay(retry.config, retry.attempt)
     IN  /\ now' = now + delay
         /\ retry' = [retry EXCEPT !.waits = Append(@, delay),
                                   !.attempt = @ + 1,
                                   !.pc = "loop"]
  /\ UNCHANGED <<file, steps, last, issued, inflight>>

\* the loop has ended: throw lastError
AttemptsExhausted ==
  /\ retry.pc = "loop"
  /\ retry.attempt > retry.config.maxAttempts
  /\ retry' = [retry EXCEPT !.pc = "raised"] @@ [thrown |-> retry.lastError]
  /\ UNCHANGED <<file, now, steps, last, issued, inflight>>

NextRetry ==
  \/ OperationSucceeds
  \/ OperationFails
  \/ WaitEnds
  \/ AttemptsExhausted

SpecRetry == InitRetry /\ [][NextRetry]_vars

Rejections(outcomes) == {i \in 1..Len(outcomes) : outcomes[i] = "rejected"}

\* delayMs * backoffMultiplier^(n - 1), the multiplier being num / den
BackoffOf(config, n) ==
  CHOOSE d \in 0..(config.delayMs * Power(config.backoffMultiplier.num, n)) :
     d * Power(config.backoffMultiplier.den, n - 1)
       = config.delayMs * Power(config.backoffMultiplier.num, n - 1)

\* C30: with maxAttempts >= 1, retryOperation invokes the operation at
\* most maxAttempts times, stops at the first success and returns its
\* result without another invocation, raises the error of the last
\* invocation when all maxAttempts invocations fail, and waits
\* delayMs * backoffMultiplier^(attempt-1) after each failed attempt except
\* the last one.
C30_RetryBounded ==
  retry.pc # "none" /\ retry.config.maxAttempts >= 1 =>
    /\ Len(retry.outcomes) <= retry.config.maxAttempts
    /\ \A i \in 1..Len(retry.outcomes) :
          retry.outcomes[i] = "resolved" =>
            /\ i = Len(retry.outcomes)
            /\ retry.pc = "returned"
    /\ retry.pc = "returned" =>
          /\ retry.outcomes[Len(retry.outcomes)] = "resolved"
          /\ retry.result = Len(retry.outcomes)
          /\ Len(retry.waits) = Len(retry.outcomes) - 1
    /\ retry.pc = "raised" =>
          /\ Len(retry.outcomes) = retry.config.maxAttempts
          /\ Rejections(retry.outcomes) = 1..retry.config.maxAttempts
          /\ retry.thrown = retry.config.maxAttempts
          /\ Len(retry.waits) = retry.config.maxAttempts - 1
    /\ retry.pc = "loop" => Len(retry.waits) =
          Cardinality(Rejections(retry.outcomes) \ {retry.config.maxAttempts})
    /\ \A n \in 1..Len(retry.waits) :
          /\ n \in Rejections(retry.outcomes)
          /\ n < retry.config.maxAttempts
          /\ retry.waits[n] = BackoffOf(retry.config, n)

\* the configuration of withSettingsRetry, all three attempts failed
C30_Witness ==
  /\ retry.pc = "raised"
  /\ retry.config = SettingsRetryConfig
  /\ retry.outcomes = <<"rejected", "rejected", "rejected">>
  /\ retry.waits = <<500, 750>>
  /\ retry.thrown = 3
  /\ now = 1250

=============================================================================
